---- MODULE Spec2Model ----
(***************************************************************************)
(* Verification model of the Tableau workbook metadata extractor           *)
(* (src/extractors/xml_extractor.py), of the extract command (src/main.py), *)
(* of the validator and comparator (src/utils/validation.py,               *)
(* src/utils/comparison.py) and of the remote client                       *)
(* (src/extractors/metadata_api.py).                                       *)
(*                                                                         *)
(* Text is modelled at character level: a Python str is a sequence of      *)
(* one-character strings, so that substring tests, splits, strips and      *)
(* regular-expression scans are computed the way the code computes them.   *)
(***************************************************************************)
EXTENDS Integers, Sequences, FiniteSets, TLC

VARIABLES
    name,        \* argument of _clean_field_name
    cleaned,     \* _clean_field_name(name)
    recleaned,   \* _clean_field_name(cleaned)
    npc,         \* position of the name-normalizer run
    formula,     \* argument of _analyze_formula
    analysis,    \* the dict _analyze_formula returned for formula
    baseScore,   \* complexity score of the formula before it was LOD-wrapped
    fpc,         \* position of the formula-analyzer run
    workbook,    \* the workbook document the extractor instance was created for
    field_to_sheets,       \* self._field_to_sheets
    sheet_to_dashboards,   \* self._sheet_to_dashboards
    metadata,    \* the WorkbookMetadata returned by the latest extract()
    firstMetadata,   \* the WorkbookMetadata returned by the first extract()
    rebuilt,     \* result of the latest direct _build_relationships call
    extracts,    \* number of extract() calls made on the instance
    file,        \* the workbook file given to the extract command
    rpc,         \* position of the extract command run
    temp_dir,    \* self.temp_dir: the temporary extraction directory
    twb_path,    \* self.twb_path
    parsed,      \* what the parse steps of the run have produced so far
    exit_status, \* status the extract command terminated with, if it did
    validator,   \* the MetadataValidator instance
    validated,   \* the WorkbookMetadata handed to validate()
    validation_result,   \* the ValidationResult validate() returned
    xml_metadata,        \* first argument of MetadataComparator.compare
    api_metadata,        \* second argument of MetadataComparator.compare
    comparison_result,   \* the ComparisonResult compare() returned
    match_percentage,    \* what get_match_percentage() returned for it
    element,     \* the markup element handed to an element parser
    parsed_item, \* what the element parser returned for element
    epc,         \* position of the element-parser run
    credentials, \* which credentials the remote client was created with
    auth_token,  \* self.auth_token of the remote client
    exchanges,   \* the requests the client has sent, with their responses
    last_call,   \* the client method called last
    call_result  \* how that call ended: what it returned or raised

normVars == <<name, cleaned, recleaned, npc>>
formulaVars == <<formula, analysis, baseScore, fpc>>
extractVars == <<workbook, field_to_sheets, sheet_to_dashboards, metadata,
                 firstMetadata, rebuilt, extracts>>
runVars == <<file, rpc, temp_dir, twb_path, parsed, exit_status>>

validateVars == <<validator, validated, validation_result>>
compareVars == <<xml_metadata, api_metadata, comparison_result, match_percentage>>

elementVars == <<element, parsed_item, epc>>

clientVars == <<credentials, auth_token, exchanges, last_call, call_result>>

vars == <<normVars, formulaVars, extractVars, runVars, validateVars, compareVars,
          elementVars, clientVars>>

\* what an action of one part leaves alone: the variables of the others
Others(part) ==
    /\ IF part = "norm" THEN TRUE ELSE UNCHANGED normVars
    /\ IF part = "formula" THEN TRUE ELSE UNCHANGED formulaVars
    /\ IF part = "extract" THEN TRUE ELSE UNCHANGED extractVars
    /\ IF part = "run" THEN TRUE ELSE UNCHANGED runVars
    /\ IF part = "validate" THEN TRUE ELSE UNCHANGED validateVars
    /\ IF part = "compare" THEN TRUE ELSE UNCHANGED compareVars
    /\ IF part = "element" THEN TRUE ELSE UNCHANGED elementVars
    /\ IF part = "client" THEN TRUE ELSE UNCHANGED clientVars

(***************************************************************************)
(* Bounds                                                                  *)
(***************************************************************************)
MaxNameTokens == 4
MaxFragments == 3
MaxDataSources == 2
MaxSheets == 2
MaxDashboards == 2
MaxExtracts == 2
MaxFields == 3
MaxParameters == 1000
MaxDifferences == 3
MaxIssues == 3
MaxRequests == 3
MaxColumns == 2
MaxOperands == 3
MaxClauses == 1

(***************************************************************************)
(* Python str primitives                                                   *)
(***************************************************************************)
UpperAlpha == <<"A","B","C","D","E","F","G","H","I","J","K","L","M",
                "N","O","P","Q","R","S","T","U","V","W","X","Y","Z">>
LowerAlpha == <<"a","b","c","d","e","f","g","h","i","j","k","l","m",
                "n","o","p","q","r","s","t","u","v","w","x","y","z">>
Digits == {"0","1","2","3","4","5","6","7","8","9"}

\* str.lower() / str.upper(), one character
LowerMap == [c \in {UpperAlpha[i] : i \in 1..26} |->
                LowerAlpha[CHOOSE i \in 1..26 : UpperAlpha[i] = c]]
UpperMap == [c \in {LowerAlpha[i] : i \in 1..26} |->
                UpperAlpha[CHOOSE i \in 1..26 : LowerAlpha[i] = c]]
LowerChar(c) == IF c \in DOMAIN LowerMap THEN LowerMap[c] ELSE c
UpperChar(c) == IF c \in DOMAIN UpperMap THEN UpperMap[c] ELSE c

Lower(s) == [i \in 1..Len(s) |-> LowerChar(s[i])]
Upper(s) == [i \in 1..Len(s) |-> UpperChar(s[i])]

\* s[i:] and s[:i] on 1-based positions
From(s, i) == SubSeq(s, i, Len(s))
Upto(s, i) == SubSeq(s, 1, i)

\* does pat occur in s at position i
MatchAt(s, pat, i) ==
    /\ i >= 1
    /\ i + Len(pat) - 1 <= Len(s)
    /\ SubSeq(s, i, i + Len(pat) - 1) = pat

StartsWith(s, pat) == MatchAt(s, pat, 1)
EndsWith(s, pat) == MatchAt(s, pat, Len(s) - Len(pat) + 1)

\* the positions at which pat occurs in s (str.count(pat) is their number
\* for a pat that cannot overlap itself)
Occurrences(s, pat) == {i \in 1..Len(s) : MatchAt(s, pat, i)}

\* pat in s
Contains(s, pat) ==
    \E i \in 1..(Len(s) - Len(pat) + 1) : SubSeq(s, i, i + Len(pat) - 1) = pat

Min(S) == CHOOSE x \in S : \A y \in S : x <= y
Max(S) == CHOOSE x \in S : \A y \in S : x >= y

\* str.find, 1-based, 0 when absent
Find(s, pat) == IF Contains(s, pat) THEN Min(Occurrences(s, pat)) ELSE 0

\* str.split(sep): the list of parts, scanning left to right
RECURSIVE Split(_, _)
Split(s, sep) ==
    LET i == Find(s, sep) IN
    IF i = 0 THEN <<s>>
    ELSE <<Upto(s, i - 1)>> \o Split(From(s, i + Len(sep)), sep)

\* str.strip(chars): drop leading and trailing characters of the set
RECURSIVE LStrip(_, _)
LStrip(s, chars) ==
    IF s # <<>> /\ Head(s) \in chars THEN LStrip(Tail(s), chars) ELSE s
RECURSIVE RStrip(_, _)
RStrip(s, chars) ==
    IF s # <<>> /\ s[Len(s)] \in chars THEN RStrip(Upto(s, Len(s) - 1), chars) ELSE s
Strip(s, chars) == RStrip(LStrip(s, chars), chars)

Last(q) == q[Len(q)]

RECURSIVE Concat(_)
Concat(parts) == IF parts = <<>> THEN <<>> ELSE Head(parts) \o Concat(Tail(parts))

\* all sequences over S of length at most n
SeqsUpTo(S, n) == UNION {[1..k -> S] : k \in 0..n}

(***************************************************************************)
(* Name Normalizer: XMLMetadataExtractor._clean_field_name                 *)
(***************************************************************************)
S_federated == <<"f","e","d","e","r","a","t","e","d">>

\* prefixes list of _clean_field_name
prefixes == {
    <<"n","o","n","e">>, <<"s","u","m">>, <<"a","v","g">>, <<"m","i","n">>,
    <<"m","a","x">>, <<"c","o","u","n","t">>, <<"c","o","u","n","t","d">>,
    <<"a","t","t","r">>, <<"u","s","r">>,
    <<"c","a","l","c","u","l","a","t","i","o","n">>,
    <<"y","e","a","r">>, <<"m","o","n","t","h">>, <<"d","a","y">>,
    <<"w","e","e","k">>, <<"q","u","a","r","t","e","r">>}

\* length above which a dotted prefix is taken for a datasource qualifier
FederatedPrefixLen == 15

\* multipart names like [ds].[field]
CleanBrackets(s) ==
    IF StartsWith(s, <<"[">>) /\ EndsWith(s, <<"]">>)
    THEN IF Contains(s, <<"]", ".", "[">>)
         THEN Strip(Last(Split(s, <<"]", ".", "[">>)), {"[", "]"})
         ELSE Strip(s, {"[", "]"})
    ELSE s

\* federated datasource prefixes
CleanFederated(s) ==
    IF Contains(s, <<".">>) /\ ~StartsWith(s, <<"[">>)
    THEN LET parts == Split(s, <<".">>) IN
         IF Len(parts) > 1 /\ (Len(parts[1]) > FederatedPrefixLen
                                \/ Contains(Lower(parts[1]), S_federated))
         THEN Last(parts)
         ELSE s
    ELSE s

\* a known prefix is recognised case-sensitively
IsPrefixExact(seg) == seg \in prefixes

\* parts[0].lower() in prefixes
IsPrefix(seg) == Lower(seg) \in prefixes

\* prefixes like none:Category:nk or sum:Sales:qk
CleanColon(s) ==
    IF Contains(s, <<":">>)
    THEN LET parts == Split(s, <<":">>) IN
         IF IsPrefix(parts[1])
         THEN IF Len(parts) >= 2 THEN parts[2] ELSE s
         ELSE IF Len(parts) > 1 THEN parts[1] ELSE s
    ELSE s

_clean_field_name(s) ==
    IF s = <<>> THEN <<>>
    ELSE Strip(CleanColon(CleanFederated(CleanBrackets(s))), {"[", "]", " "})

(***************************************************************************)
(* Formula Analyzer: XMLMetadataExtractor._analyze_formula                 *)
(***************************************************************************)
\* None, for attributes that otherwise hold text (no text equals it: the
\* elements of a text are single characters)
None == <<"None">>

\* XMLMetadataExtractor.TABLE_CALC_FUNCTIONS
TABLE_CALC_FUNCTIONS == {
    <<"R","U","N","N","I","N","G","_","S","U","M">>,
    <<"R","U","N","N","I","N","G","_","A","V","G">>,
    <<"R","U","N","N","I","N","G","_","C","O","U","N","T">>,
    <<"R","U","N","N","I","N","G","_","M","I","N">>,
    <<"R","U","N","N","I","N","G","_","M","A","X">>,
    <<"W","I","N","D","O","W","_","S","U","M">>,
    <<"W","I","N","D","O","W","_","A","V","G">>,
    <<"W","I","N","D","O","W","_","C","O","U","N","T">>,
    <<"W","I","N","D","O","W","_","M","I","N">>,
    <<"W","I","N","D","O","W","_","M","A","X">>,
    <<"W","I","N","D","O","W","_","M","E","D","I","A","N">>,
    <<"W","I","N","D","O","W","_","S","T","D","E","V">>,
    <<"W","I","N","D","O","W","_","S","T","D","E","V","P">>,
    <<"W","I","N","D","O","W","_","V","A","R">>,
    <<"W","I","N","D","O","W","_","V","A","R","P">>,
    <<"I","N","D","E","X">>,
    <<"F","I","R","S","T">>,
    <<"L","A","S","T">>,
    <<"S","I","Z","E">>,
    <<"L","O","O","K","U","P">>,
    <<"P","R","E","V","I","O","U","S","_","V","A","L","U","E">>,
    <<"R","A","N","K">>,
    <<"R","A","N","K","_","D","E","N","S","E">>,
    <<"R","A","N","K","_","M","O","D","I","F","I","E","D">>,
    <<"R","A","N","K","_","P","E","R","C","E","N","T","I","L","E">>,
    <<"R","A","N","K","_","U","N","I","Q","U","E">>,
    <<"T","O","T","A","L">>,
    <<"S","C","R","I","P","T","_","B","O","O","L">>,
    <<"S","C","R","I","P","T","_","I","N","T">>,
    <<"S","C","R","I","P","T","_","R","E","A","L">>,
    <<"S","C","R","I","P","T","_","S","T","R">>}

\* XMLMetadataExtractor.AGGREGATE_FUNCTIONS
AGGREGATE_FUNCTIONS == {
    <<"S","U","M">>, <<"A","V","G">>, <<"M","I","N">>, <<"M","A","X">>,
    <<"C","O","U","N","T">>, <<"C","O","U","N","T","D">>,
    <<"M","E","D","I","A","N">>, <<"S","T","D","E","V">>,
    <<"S","T","D","E","V","P">>, <<"V","A","R">>, <<"V","A","R","P">>,
    <<"C","O","R","R">>, <<"C","O","V","A","R">>, <<"C","O","V","A","R","P">>,
    <<"A","T","T","R">>, <<"C","O","L","L","E","C","T">>,
    <<"P","E","R","C","E","N","T","I","L","E">>}

S_FIXED == <<"F","I","X","E","D">>
S_INCLUDE == <<"I","N","C","L","U","D","E">>
S_EXCLUDE == <<"E","X","C","L","U","D","E">>
S_IF == <<"I","F"," ">>
S_IIF == <<"I","I","F","(">>
S_ELSEIF == <<"E","L","S","E","I","F">>
S_CASE == <<"C","A","S","E"," ">>
S_WHEN == <<"W","H","E","N"," ">>
S_RUNNING_SUM == <<"R","U","N","N","I","N","G","_","S","U","M">>

LodKeywords == {S_FIXED, S_INCLUDE, S_EXCLUDE}

\* \s of the re module, within the modelled alphabet
Whitespace == {" "}

\* [A-Z_] and \w on upper-cased text
IsNameChar(c) == c \in DOMAIN LowerMap \/ c = "_"
IsWordChar(c) == IsNameChar(c) \/ c \in DOMAIN UpperMap \/ c \in Digits

\* first position >= p holding character ch, 0 when there is none
NextPos(s, ch, p) ==
    LET S == {k \in p..Len(s) : s[k] = ch} IN IF S = {} THEN 0 ELSE Min(S)

\* first position >= p that holds no whitespace (Len(s) + 1 when none)
SkipWhitespace(s, p) ==
    LET S == {k \in p..Len(s) : s[k] \notin Whitespace} IN
    IF S = {} THEN Len(s) + 1 ELSE Min(S)

\* re.findall(r'\[([^\]]+)\]', s): the bracketed tokens, left to right
RECURSIVE BracketTokens(_)
BracketTokens(s) ==
    LET i == Find(s, <<"[">>) IN
    IF i = 0 THEN <<>>
    ELSE LET rest == From(s, i + 1)
             j == Find(rest, <<"]">>)
         IN IF j = 0 THEN <<>>
            ELSE IF j = 1 THEN BracketTokens(rest)
            ELSE <<Upto(rest, j - 1)>> \o BracketTokens(From(rest, j + 1))

S_ParametersRef == <<"[","P","a","r","a","m","e","t","e","r","s","]",".","[">>

\* re.findall(r'\[Parameters\]\.\[([^\]]+)\]', s)
RECURSIVE ParameterRefs(_)
ParameterRefs(s) ==
    LET i == Find(s, S_ParametersRef) IN
    IF i = 0 THEN <<>>
    ELSE LET rest == From(s, i + Len(S_ParametersRef))
             j == Find(rest, <<"]">>)
         IN IF j = 0 THEN <<>>
            ELSE IF j = 1 THEN ParameterRefs(From(s, i + 1))
            ELSE <<Upto(rest, j - 1)>> \o ParameterRefs(From(rest, j + 1))

\* the attempt of r'\{(FIXED|INCLUDE|EXCLUDE)\s+([^:]*):([^}]+)\}' (IGNORECASE)
\* at position i: keyword, at least one blank, the dimension clause up to the
\* first ':', a non-empty expression up to the first '}'
LodAttempt(s, i) ==
    LET u == Upper(s)
        kws == {kw \in LodKeywords : MatchAt(u, kw, i + 1)}
    IN IF s[i] # "{" \/ kws = {} THEN [ok |-> FALSE]
       ELSE LET kw == CHOOSE k \in kws : TRUE
                p == i + 1 + Len(kw)
                q == SkipWhitespace(s, p)
                c == NextPos(s, ":", q)
                e == IF c = 0 THEN 0 ELSE NextPos(s, "}", c + 1)
            IN IF q > p /\ c # 0 /\ e > c + 1
               THEN [ok |-> TRUE, start |-> i, kw |-> kw,
                     dims |-> SubSeq(s, q, c - 1), expr |-> SubSeq(s, c + 1, e - 1)]
               ELSE [ok |-> FALSE]

\* re.search of the LOD pattern, taking the rightmost successful attempt
LodSearchLast(s) ==
    LET S == {i \in 1..Len(s) : LodAttempt(s, i).ok} IN
    IF S = {} THEN [ok |-> FALSE] ELSE LodAttempt(s, Max(S))

\* re.search of the LOD pattern: the leftmost successful attempt
LodSearch(s) ==
    LET S == {i \in 1..Len(s) : LodAttempt(s, i).ok} IN
    IF S = {} THEN [ok |-> FALSE] ELSE LodAttempt(s, Min(S))

KindOfLod(kw) ==
    IF kw = S_FIXED THEN "lod_fixed"
    ELSE IF kw = S_INCLUDE THEN "lod_include" ELSE "lod_exclude"

\* the names of TABLE_CALC_FUNCTIONS that occur in the upper-cased formula
TableCalcHits(s) ==
    LET u == Upper(s) IN {f \in TABLE_CALC_FUNCTIONS : Contains(u, f)}

\* the names of AGGREGATE_FUNCTIONS that occur in the upper-cased formula
AggregateHits(s) ==
    LET u == Upper(s) IN {a \in AGGREGATE_FUNCTIONS : Contains(u, a)}

\* re.findall(r'\b([A-Z_]+)\s*\(', formula_upper): one entry per '(' that
\* follows, after optional blanks, a run of [A-Z_] starting at a word boundary
FunctionCallAt(u, k) ==
    LET S == {j \in 1..(k - 1) : u[j] \notin Whitespace}
        j == IF S = {} THEN 0 ELSE Max(S)
    IN IF u[k] # "(" \/ j = 0 THEN <<>>
       ELSE IF ~IsNameChar(u[j]) THEN <<>>
       ELSE LET R == {r \in 1..j : \A m \in r..j : IsNameChar(u[m])}
                r == Min(R)
            IN IF r > 1 /\ IsWordChar(u[r - 1]) THEN <<>> ELSE SubSeq(u, r, j)

RECURSIVE CallsFrom(_, _)
CallsFrom(u, k) ==
    IF k > Len(u) THEN <<>>
    ELSE LET f == FunctionCallAt(u, k) IN
         (IF f = <<>> THEN <<>> ELSE <<f>>) \o CallsFrom(u, k + 1)

FunctionCalls(s) == CallsFrom(Upper(s), 1)

Range(q) == {q[i] : i \in DOMAIN q}

\* complexity added by the LOD check
LodScore(s) == IF LodSearch(s).ok THEN 30 ELSE 0

\* complexity added by the table-calculation scan, skipped for LOD formulas
TableCalcScoreUnlessLod(s) ==
    IF TableCalcHits(s) # {} /\ ~LodSearch(s).ok THEN 40 ELSE 0

\* complexity added by the table-calculation scan
TableCalcScore(s) == IF TableCalcHits(s) # {} THEN 40 ELSE 0

\* complexity added by the IF check
IfScore(s) ==
    LET u == Upper(s) IN
    IF Contains(u, S_IF) \/ Contains(u, S_IIF)
    THEN 5 + (IF Cardinality(Occurrences(u, S_IF)) > 2
                 \/ Cardinality(Occurrences(u, S_ELSEIF)) > 1 THEN 10 ELSE 0)
    ELSE 0

\* complexity added by the CASE check
CaseScore(s) ==
    LET u == Upper(s) IN
    IF Contains(u, S_CASE)
    THEN 5 + (IF Cardinality(Occurrences(u, S_WHEN)) > 3 THEN 10 ELSE 0)
    ELSE 0

\* nested calculations: more than one '{' or more than 3 function matches
HasNested(s) ==
    Cardinality(Occurrences(s, <<"{">>)) > 1 \/ Len(FunctionCalls(s)) > 3

NestedScore(s) == IF HasNested(s) THEN 15 ELSE 0

\* the score is returned as accumulated
NoCap(n) == n

\* min(score, 100)
CapScore(n) == IF n < 100 THEN n ELSE 100

\* the table-calculation scan leaves an LOD kind in place
KindAfterTableCalcKeepLod(kind, func) ==
    IF func # None /\ kind = "simple" THEN "table_calc" ELSE kind

\* the table-calculation scan assigns the kind unconditionally
KindAfterTableCalc(kind, func) == IF func # None THEN "table_calc" ELSE kind

\* `for func in self.TABLE_CALC_FUNCTIONS` iterates a set of str: the order is
\* the hash order of the run, so the first hit is any of the hits
FirstTableCalcHit(s) ==
    IF TableCalcHits(s) = {} THEN {None} ELSE TableCalcHits(s)

\* the dict returned by _analyze_formula when the table-calculation scan
\* stopped at func
_analyze_formula(s, func) ==
    LET lod == LodSearch(s)
        kind0 == IF lod.ok THEN KindOfLod(lod.kw) ELSE "simple"
        kind1 == KindAfterTableCalc(kind0, func)
        kind2 == IF AggregateHits(s) # {} /\ kind1 = "simple"
                 THEN "aggregate" ELSE kind1
    IN [calculation_type |-> kind2,
        referenced_fields |-> BracketTokens(s),
        referenced_parameters |-> ParameterRefs(s),
        lod_type |-> IF lod.ok THEN lod.kw ELSE None,
        lod_dimensions |->
            IF lod.ok
            THEN LET ds == BracketTokens(lod.dims) IN
                 [i \in 1..Len(ds) |-> _clean_field_name(ds[i])]
            ELSE <<>>,
        lod_expression |-> IF lod.ok THEN Strip(lod.expr, Whitespace) ELSE None,
        table_calc_type |-> func,
        functions |-> Range(FunctionCalls(s)),
        aggregations |-> AggregateHits(s),
        has_nested |-> HasNested(s),
        complexity_score |->
            CapScore(LodScore(s) + TableCalcScore(s) + IfScore(s)
                     + CaseScore(s) + NestedScore(s))]

(***************************************************************************)
(* Structural Parser: the workbook document and what extract() reads       *)
(* from it.  A document is                                                 *)
(*   [datasources |-> <<ds_elem>>, parameters |-> <<column name>>,         *)
(*    worksheets |-> <<ws_elem>>, dashboards |-> <<dash_elem>>]            *)
(* with  ds_elem   = [name, columns |-> <<[name, calculation]>>]           *)
(*       ws_elem   = [name, table, rows, cols, encodings |-> <<[attr,      *)
(*                    column]>>]                                           *)
(*       dash_elem = [name, zones |-> <<[name, type, floating]>>,          *)
(*                    actions |-> <<[name, type, sources, targets]>>]      *)
(* Names and texts are character sequences; a missing calculation          *)
(* sub-element is None.                                                    *)
(***************************************************************************)
K_Calculation == <<"[","C","a","l","c","u","l","a","t","i","o","n","_">>
K_Colon == <<"[",":">>
S_none == <<"n","o","n","e">>

\* Concat of Op over the items of a list
FlatMap(q, Op(_)) == Concat([i \in 1..Len(q) |-> Op(q[i])])

\* _parse_fields: the columns without a calculation sub-element whose name
\* is not an internal one
IsFieldColumn(col) ==
    /\ col.calculation = None
    /\ col.name # <<>>
    /\ ~StartsWith(col.name, K_Calculation)
    /\ ~StartsWith(col.name, K_Colon)

_parse_fields(ds_elem) ==
    LET cols == SelectSeq(ds_elem.columns, IsFieldColumn) IN
    [i \in 1..Len(cols) |-> [name |-> _clean_field_name(cols[i].name)]]

\* _parse_calculated_fields: the columns with a calculation sub-element that
\* carries a formula; pick[formula] is where the table-calculation scan stops
IsCalculatedColumn(col) == col.calculation # None /\ col.calculation # <<>>

_parse_calculated_fields(ds_elem, pick) ==
    LET cols == SelectSeq(ds_elem.columns, IsCalculatedColumn) IN
    [i \in 1..Len(cols) |->
        LET a == _analyze_formula(cols[i].calculation, pick[cols[i].calculation])
        IN [name |-> _clean_field_name(cols[i].name),
            formula |-> cols[i].calculation,
            calculation_type |-> a.calculation_type,
            table_calc_type |-> a.table_calc_type,
            complexity_score |-> a.complexity_score,
            referenced_fields |->
                [k \in 1..Len(a.referenced_fields) |->
                    _clean_field_name(a.referenced_fields[k])],
            referenced_parameters |-> a.referenced_parameters]]

\* _parse_datasources / _parse_single_datasource
_parse_datasources(doc, pick) ==
    [i \in 1..Len(doc.datasources) |->
        [name |-> doc.datasources[i].name,
         fields |-> _parse_fields(doc.datasources[i]),
         calculated_fields |-> _parse_calculated_fields(doc.datasources[i], pick)]]

\* _parse_parameters: name = the column name stripped of brackets, columns
\* with an empty name are skipped
_parse_parameters(doc) ==
    LET names == [i \in 1..Len(doc.parameters) |->
                     Strip(doc.parameters[i], {"[", "]"})]
        kept == SelectSeq(names, LAMBDA n : n # <<>>)
    IN [i \in 1..Len(kept) |-> [name |-> kept[i]]]

\* the aggregation names _parse_shelf looks for in front of '('
SHELF_AGGREGATIONS == {
    <<"S","U","M">>, <<"A","V","G">>, <<"C","O","U","N","T">>,
    <<"C","O","U","N","T","D">>, <<"M","I","N">>, <<"M","A","X">>,
    <<"M","E","D","I","A","N">>, <<"A","T","T","R">>}

\* the keys of XMLMetadataExtractor.AGGREGATION_MAP
AGGREGATION_MAP_KEYS == {
    <<"s","u","m">>, <<"a","v","g">>, <<"c","o","u","n","t">>,
    <<"c","o","u","n","t","d">>, <<"m","i","n">>, <<"m","a","x">>,
    <<"m","e","d","i","a","n">>, <<"a","t","t","r">>,
    <<"s","t","d","e","v">>, <<"s","t","d","e","v","p">>, <<"v","a","r">>,
    <<"v","a","r","p">>, <<"p","e","r","c","e","n","t","i","l","e">>,
    <<"c","o","l","l","e","c","t">>}

\* re.search(r'\(([^)]+)\)', s): group 1 of the leftmost match, None without
InnerParens(s) ==
    LET S == {i \in 1..Len(s) :
                 /\ s[i] = "("
                 /\ NextPos(s, ")", i + 1) > i + 1}
    IN IF S = {} THEN None
       ELSE LET i == Min(S) IN SubSeq(s, i + 1, NextPos(s, ")", i + 1) - 1)

\* one entry of _parse_shelf, for one bracketed token of the shelf text
ShelfEntry(field, shelf_name) ==
    LET aggs == {a \in SHELF_AGGREGATIONS : StartsWith(Upper(field), a \o <<"(">>)}
        agg == CHOOSE a \in aggs : TRUE
        field_name == IF aggs # {} /\ InnerParens(field) # None
                      THEN InnerParens(field) ELSE field
        agg1 == IF aggs # {} THEN Lower(agg) ELSE S_none
        agg2 == IF Contains(field_name, <<":">>)
                   /\ Lower(Split(field_name, <<":">>)[1]) \in AGGREGATION_MAP_KEYS
                THEN Lower(Split(field_name, <<":">>)[1]) ELSE agg1
    IN [field |-> _clean_field_name(field_name), shelf |-> shelf_name,
        aggregation |-> agg2, original |-> field]

_parse_shelf(text, shelf_name) ==
    LET fields == BracketTokens(text) IN
    [i \in 1..Len(fields) |-> ShelfEntry(fields[i], shelf_name)]

\* _parse_encoding: the first encoding element of the type, None when it is
\* missing or has no column
_parse_encoding(ws_elem, attr) ==
    LET es == SelectSeq(ws_elem.encodings, LAMBDA e : e.attr = attr) IN
    IF es = <<>> \/ es[1].column = <<>> THEN None
    ELSE _clean_field_name(es[1].column)

\* _parse_encoding_list: every encoding element of the type that has a column
_parse_encoding_list(ws_elem, attr) ==
    LET es == SelectSeq(ws_elem.encodings,
                        LAMBDA e : e.attr = attr /\ e.column # <<>>)
    IN [i \in 1..Len(es) |-> _clean_field_name(es[i].column)]

\* all_fields collects the encodings and leaves the shelves out
AllFieldsOfEncodings(ws_elem) ==
    IF ~ws_elem.table THEN {}
    ELSE ({_parse_encoding(ws_elem, "color"),
           _parse_encoding(ws_elem, "size")} \ {None})
         \cup Range(_parse_encoding_list(ws_elem, "text"))
         \cup Range(_parse_encoding_list(ws_elem, "lod"))

\* the all_fields, dimensions and measures sets of _parse_single_worksheet
AllFields(ws_elem) ==
    IF ~ws_elem.table THEN {}
    ELSE LET shelves == _parse_shelf(ws_elem.rows, "rows")
                        \o _parse_shelf(ws_elem.cols, "cols")
         IN {shelves[i].field : i \in 1..Len(shelves)}
            \cup ({_parse_encoding(ws_elem, "color"),
                   _parse_encoding(ws_elem, "size")} \ {None})
            \cup Range(_parse_encoding_list(ws_elem, "text"))
            \cup Range(_parse_encoding_list(ws_elem, "lod"))

Dimensions(ws_elem) ==
    IF ~ws_elem.table THEN {}
    ELSE LET shelves == _parse_shelf(ws_elem.rows, "rows")
                        \o _parse_shelf(ws_elem.cols, "cols")
         IN {shelves[i].field : i \in {k \in 1..Len(shelves) :
                                          shelves[k].aggregation = S_none}}

Measures(ws_elem) ==
    IF ~ws_elem.table THEN {}
    ELSE LET shelves == _parse_shelf(ws_elem.rows, "rows")
                        \o _parse_shelf(ws_elem.cols, "cols")
         IN {shelves[i].field : i \in {k \in 1..Len(shelves) :
                                          shelves[k].aggregation # S_none}}

\* the SheetMetadata of _parse_single_worksheet (the *_used lists are built
\* from sets: their order is not modelled)
_parse_single_worksheet(ws_elem) ==
    [name |-> ws_elem.name,
     rows |-> IF ws_elem.table THEN _parse_shelf(ws_elem.rows, "rows") ELSE <<>>,
     columns |-> IF ws_elem.table THEN _parse_shelf(ws_elem.cols, "cols") ELSE <<>>,
     all_fields_used |-> AllFields(ws_elem) \ {<<>>},
     dimensions_used |-> Dimensions(ws_elem) \ {<<>>},
     measures_used |-> Measures(ws_elem) \ {<<>>}]

\* "Track field usage": every non-empty field of the sheet gets the sheet
\* name appended to its list
TrackFieldUsage(fts, ws_elem) ==
    LET used == AllFields(ws_elem) \ {<<>>} IN
    [f \in DOMAIN fts \cup used |->
        (IF f \in DOMAIN fts THEN fts[f] ELSE <<>>)
        \o (IF f \in used THEN <<ws_elem.name>> ELSE <<>>)]

\* self._field_to_sheets after _parse_worksheets went through the worksheets
RECURSIVE FieldUsageAfter(_, _)
FieldUsageAfter(fts, ws_elems) ==
    IF ws_elems = <<>> THEN fts
    ELSE FieldUsageAfter(TrackFieldUsage(fts, Head(ws_elems)), Tail(ws_elems))

_parse_worksheets(doc) ==
    [i \in 1..Len(doc.worksheets) |-> _parse_single_worksheet(doc.worksheets[i])]

\* _parse_dashboard_zone: the zone type by priority, then named -> worksheet
ZONE_TYPES == [text |-> "text", web |-> "web", image |-> "image",
               paramctrl |-> "parameter", filter |-> "filter",
               legend |-> "legend", color |-> "legend",
               horizontal |-> "container", vertical |-> "container"]

_parse_dashboard_zone(zone_elem) ==
    LET typed == zone_elem.type \in DOMAIN ZONE_TYPES
        zone_type == IF typed THEN ZONE_TYPES[zone_elem.type]
                     ELSE IF zone_elem.name # <<>> THEN "worksheet" ELSE "blank"
    IN [zone_type |-> zone_type,
        name |-> zone_elem.name,
        worksheet_name |-> IF zone_type = "worksheet" THEN zone_elem.name ELSE None,
        is_floating |-> zone_elem.floating]

\* _parse_dashboard_actions
_parse_dashboard_action(action_elem) ==
    [name |-> action_elem.name,
     action_type |-> IF action_elem.type \in {"url", "web"} THEN "url"
                     ELSE action_elem.type,
     source_worksheets |-> SelectSeq(action_elem.sources, LAMBDA w : w # <<>>),
     target_worksheets |-> SelectSeq(action_elem.targets, LAMBDA w : w # <<>>)]

\* _parse_single_dashboard
_parse_single_dashboard(dash_elem) ==
    LET zones == [i \in 1..Len(dash_elem.zones) |->
                     _parse_dashboard_zone(dash_elem.zones[i])]
        ws == SelectSeq(zones, LAMBDA z : z.zone_type = "worksheet"
                                          /\ z.worksheet_name # <<>>)
        fl == SelectSeq(zones, LAMBDA z : z.zone_type = "filter" /\ z.name # <<>>)
        pa == SelectSeq(zones, LAMBDA z : z.zone_type = "parameter" /\ z.name # <<>>)
    IN [name |-> dash_elem.name,
        zones |-> zones,
        worksheets |-> [i \in 1..Len(ws) |-> ws[i].worksheet_name],
        exposed_filters |-> [i \in 1..Len(fl) |-> fl[i].name],
        exposed_parameters |-> [i \in 1..Len(pa) |-> pa[i].name],
        actions |-> [i \in 1..Len(dash_elem.actions) |->
                        _parse_dashboard_action(dash_elem.actions[i])],
        layout_type |->
            IF \E i \in 1..Len(zones) : zones[i].is_floating
            THEN IF \A i \in 1..Len(zones) : zones[i].is_floating
                 THEN "floating" ELSE "mixed"
            ELSE "tiled"]

_parse_dashboards(doc) ==
    [i \in 1..Len(doc.dashboards) |-> _parse_single_dashboard(doc.dashboards[i])]

\* "Track sheet to dashboard mapping": one append per entry of the
\* dashboard's worksheet list
RECURSIVE TrackSheets(_, _, _)
TrackSheets(std, worksheets, dash_name) ==
    IF worksheets = <<>> THEN std
    ELSE LET w == Head(worksheets) IN
         TrackSheets([k \in DOMAIN std \cup {w} |->
                         (IF k \in DOMAIN std THEN std[k] ELSE <<>>)
                         \o (IF k = w THEN <<dash_name>> ELSE <<>>)],
                     Tail(worksheets), dash_name)

\* self._sheet_to_dashboards after _parse_dashboards went through the list
RECURSIVE SheetUsageAfter(_, _)
SheetUsageAfter(std, dashboards) ==
    IF dashboards = <<>> THEN std
    ELSE SheetUsageAfter(
             TrackSheets(std, Head(dashboards).worksheets, Head(dashboards).name),
             Tail(dashboards))

(***************************************************************************)
(* Relationship Builder: XMLMetadataExtractor._build_relationships         *)
(***************************************************************************)
Edge(rtype, stype, sname, ttype, tname, details) ==
    [relationship_type |-> rtype, source_type |-> stype, source_name |-> sname,
     target_type |-> ttype, target_name |-> tname, relationship_details |-> details]

\* "Field to sheet relationships"
FieldToSheetEdges(datasources, fts) ==
    FlatMap(datasources, LAMBDA ds :
        FlatMap(ds.fields, LAMBDA field :
            IF field.name \in DOMAIN fts
            THEN [i \in 1..Len(fts[field.name]) |->
                     Edge("field_to_sheet", "field", field.name,
                          "sheet", fts[field.name][i], <<>>)]
            ELSE <<>>))

\* "Calculated field dependencies"
CalcToFieldEdges(datasources) ==
    FlatMap(datasources, LAMBDA ds :
        FlatMap(ds.calculated_fields, LAMBDA calc :
            [i \in 1..Len(calc.referenced_fields) |->
                Edge("calc_to_field", "calculated_field", calc.name,
                     "field", calc.referenced_fields[i], <<>>)]))

\* "Sheet to dashboard relationships"
SheetToDashboardEdges(sheets, std) ==
    FlatMap(sheets, LAMBDA sheet :
        IF sheet.name \in DOMAIN std
        THEN [i \in 1..Len(std[sheet.name]) |->
                 Edge("sheet_to_dashboard", "sheet", sheet.name,
                      "dashboard", std[sheet.name][i], <<>>)]
        ELSE <<>>)

\* "Dashboard action relationships"
ActionEdges(dashboards) ==
    FlatMap(dashboards, LAMBDA dashboard :
        FlatMap(dashboard.actions, LAMBDA action :
            FlatMap(action.source_worksheets, LAMBDA source_ws :
                [i \in 1..Len(action.target_worksheets) |->
                    Edge("action", "sheet", source_ws,
                         "sheet", action.target_worksheets[i],
                         <<[action_name |-> action.name,
                            action_type |-> action.action_type,
                            dashboard |-> dashboard.name]>>)])))

\* "Parameter usage"
ParameterEdges(parameters, datasources) ==
    FlatMap(parameters, LAMBDA param :
        FlatMap(datasources, LAMBDA ds :
            FlatMap(ds.calculated_fields, LAMBDA calc :
                IF param.name \in Range(calc.referenced_parameters)
                THEN <<Edge("parameter", "parameter", param.name,
                            "calculated_field", calc.name, <<>>)>>
                ELSE <<>>)))

\* the components are appended with the sheet memberships ahead of the
\* calculation dependencies
_build_relationships_sheets_first(datasources, sheets, dashboards, parameters, fts, std) ==
    FieldToSheetEdges(datasources, fts)
    \o SheetToDashboardEdges(sheets, std)
    \o CalcToFieldEdges(datasources)
    \o ActionEdges(dashboards)
    \o ParameterEdges(parameters, datasources)

\* _build_relationships, reading self._field_to_sheets (fts) and
\* self._sheet_to_dashboards (std)
_build_relationships(datasources, sheets, dashboards, parameters, fts, std) ==
    FieldToSheetEdges(datasources, fts)
    \o CalcToFieldEdges(datasources)
    \o SheetToDashboardEdges(sheets, std)
    \o ActionEdges(dashboards)
    \o ParameterEdges(parameters, datasources)

EmptyMap == [k \in {} |-> <<>>]

EmptyWorkbook == [datasources |-> <<>>, parameters |-> <<>>,
                  worksheets |-> <<>>, dashboards |-> <<>>]

NoMetadata == [datasources |-> <<>>, parameters |-> <<>>, sheets |-> <<>>,
               dashboards |-> <<>>, relationships |-> <<>>]

\* where the table-calculation scan stops for each formula of the document:
\* any name that hits (the set's order is the hash order of the run)
CalcFormulas(doc) ==
    UNION {{doc.datasources[i].columns[k].calculation :
               k \in 1..Len(doc.datasources[i].columns)} \ {None, <<>>} :
           i \in 1..Len(doc.datasources)}

TableCalcPicks(doc) ==
    LET fs == CalcFormulas(doc)
        hits == UNION {FirstTableCalcHit(f) : f \in fs}
    IN {p \in [fs -> hits] : \A f \in fs : p[f] \in FirstTableCalcHit(f)}

(***************************************************************************)
(* The parts are exercised by separate specifications; a part that         *)
(* is not exercised stays idle.                                            *)
(***************************************************************************)
NoAnalysis == [calculation_type |-> "unset"]

NormIdle ==
    /\ name = <<>>
    /\ cleaned = <<>>
    /\ recleaned = <<>>
    /\ npc = "idle"

FormulaIdle ==
    /\ formula = <<>>
    /\ analysis = NoAnalysis
    /\ baseScore = -1
    /\ fpc = "idle"

ExtractIdle ==
    /\ workbook = EmptyWorkbook
    /\ field_to_sheets = EmptyMap
    /\ sheet_to_dashboards = EmptyMap
    /\ metadata = NoMetadata
    /\ firstMetadata = NoMetadata
    /\ rebuilt = <<>>
    /\ extracts = 0

NothingParsed == [step |-> "none"]

RunIdle ==
    /\ file = [suffix |-> <<>>]
    /\ rpc = "idle"
    /\ temp_dir = "none"
    /\ twb_path = None
    /\ parsed = NothingParsed
    /\ exit_status = -1

NoResult == [is_valid |-> "unset"]

ValidateIdle ==
    /\ validator = [strict_mode |-> FALSE]
    /\ validated = NoMetadata
    /\ validation_result = NoResult

CompareIdle ==
    /\ xml_metadata = NoMetadata
    /\ api_metadata = NoMetadata
    /\ comparison_result = NoResult
    /\ match_percentage = -1

NoElement == [tag |-> "none"]

ElementIdle ==
    /\ element = NoElement
    /\ parsed_item = NoElement
    /\ epc = "idle"

ClientIdle ==
    /\ credentials = "unset"
    /\ auth_token = None
    /\ exchanges = <<>>
    /\ last_call = "none"
    /\ call_result = "none"

\* a run of one part holds the other parts idle
OthersIdle(part) ==
    /\ part = "norm" \/ NormIdle
    /\ part = "formula" \/ FormulaIdle
    /\ part = "extract" \/ ExtractIdle
    /\ part = "run" \/ RunIdle
    /\ part = "validate" \/ ValidateIdle
    /\ part = "compare" \/ CompareIdle
    /\ part = "element" \/ ElementIdle
    /\ part = "client" \/ ClientIdle

(***************************************************************************)
(* Formula Analyzer runs: formulas are concatenations of at most           *)
(* MaxFragments fragments of calculation text.                             *)
(***************************************************************************)
F_LOD == <<"{","F","I","X","E","D"," ","[","A","]",",","[","B","]",":",
           "S","U","M","(","[","S","a","l","e","s","]",")","}">>
F_RUN == <<"R","U","N","N","I","N","G","_","S","U","M","(">>
F_TOTAL == <<"[","T","o","t","a","l","]",")">>
F_IF == <<"I","F"," ","M","I","N","(","A",")"," ","E","L","S","E","I","F"," ",
          "M","A","X","(","B",")"," ","E","L","S","E","I","F"," ">>
F_CASE == <<"C","A","S","E"," ","I","N","D","E","X","(",")"," ">>
F_WHEN == <<"W","H","E","N"," ","1"," ","W","H","E","N"," ","2"," ">>
F_INCLUDE == <<"{","i","n","c","l","u","d","e"," ","[","C","]",":","1">>
F_CLOSE == <<"}">>
F_ONE == <<"1">>

Fragments == {F_LOD, F_RUN, F_TOTAL, F_IF, F_CASE, F_WHEN, F_INCLUDE, F_CLOSE, F_ONE}

FormulaInputs == {Concat(fs) : fs \in SeqsUpTo(Fragments, MaxFragments)}


\* the LOD wrappers put around a formula
LodWrappers == {
    <<"{","F","I","X","E","D"," ","[","A","]",":">>,
    <<"{","I","N","C","L","U","D","E"," ","[","A","]",":">>,
    <<"{","E","X","C","L","U","D","E"," ",":">>}

FormulaInit ==
    /\ formula \in FormulaInputs
    /\ analysis = NoAnalysis
    /\ baseScore = -1
    /\ fpc = "input"
    /\ OthersIdle("formula")

\* analysis = self._analyze_formula(formula)
AnalyzeFormula ==
    /\ fpc \in {"input", "wrapped"}
    /\ \E func \in FirstTableCalcHit(formula) :
           analysis' = _analyze_formula(formula, func)
    /\ fpc' = IF fpc = "input" THEN "analyzed" ELSE "reanalyzed"
    /\ UNCHANGED <<formula, baseScore>>
    /\ Others("formula")

\* the analysed formula is put inside an LOD expression
WrapInLod ==
    /\ fpc = "analyzed"
    /\ \E w \in LodWrappers : formula' = w \o formula \o <<"}">>
    /\ baseScore' = analysis.complexity_score
    /\ analysis' = NoAnalysis
    /\ fpc' = "wrapped"
    /\ Others("formula")

FormulaNext == AnalyzeFormula \/ WrapInLod

SpecFormula == FormulaInit /\ [][FormulaNext]_vars

(***************************************************************************)
(* Name Normalizer runs: the identifiers fed to _clean_field_name are      *)
(* concatenations of at most MaxNameTokens fragments.                      *)
(***************************************************************************)
NameTokens == {
    <<"[">>, <<"]">>, <<".">>, <<":">>, <<" ">>,
    <<"S","u","m">>, <<"q","k">>,
    <<"f","e","d","e","r","a","t","e","d">>,
    <<"S","a","l","e","s">>,
    <<"O","r","d","e","r","s","_","E","x","t","r","a","c","t","_","1">>}

NameInputs == {Concat(ts) : ts \in SeqsUpTo(NameTokens, MaxNameTokens)}

NormInit ==
    /\ name \in NameInputs
    /\ cleaned = <<>>
    /\ recleaned = <<>>
    /\ npc = "input"
    /\ OthersIdle("norm")

\* cleaned = self._clean_field_name(name)
CleanName ==
    /\ npc = "input"
    /\ cleaned' = _clean_field_name(name)
    /\ npc' = "cleaned"
    /\ UNCHANGED <<name, recleaned>>
    /\ Others("norm")

\* the cleaned name is cleaned again (a shelf entry's field is re-cleaned
\* wherever it is looked up by a later parse step)
CleanAgain ==
    /\ npc = "cleaned"
    /\ recleaned' = _clean_field_name(cleaned)
    /\ npc' = "recleaned"
    /\ UNCHANGED <<name, cleaned>>
    /\ Others("norm")

NormNext == CleanName \/ CleanAgain

SpecNorm == NormInit /\ [][NormNext]_vars

(***************************************************************************)
(* Extraction runs: one XMLMetadataExtractor instance for a plain (.twb)   *)
(* workbook document, on which extract() is called up to MaxExtracts       *)
(* times and _build_relationships is called again with the entities of     *)
(* the latest result.  Documents vary two of their entity lists at a time  *)
(* around a base document.                                                 *)
(***************************************************************************)
\* names of worksheets, dashboards, data sources, actions and fields
Names ==
    [Overview |-> <<"O","v","e","r","v","i","e","w">>,
     Detail |-> <<"D","e","t","a","i","l">>,
     Exec |-> <<"E","x","e","c">>,
     Ops |-> <<"O","p","s">>,
     Links |-> <<"L","i","n","k","s">>,
     Orders |-> <<"O","r","d","e","r","s">>,
     Returns |-> <<"R","e","t","u","r","n","s">>,
     Targets |-> <<"T","a","r","g","e","t","s">>,
     Filter1 |-> <<"F","i","l","t","e","r","1">>,
     Open |-> <<"O","p","e","n">>,
     Region |-> <<"R","e","g","i","o","n">>,
     Profit |-> <<"P","r","o","f","i","t">>,
     ProfitRatio |-> <<"P","r","o","f","i","t"," ","R","a","t","i","o">>,
     TopSales |-> <<"T","o","p"," ","S","a","l","e","s">>,
     TopN |-> <<"T","o","p"," ","N">>]

\* name and caption attributes as the document spells them
Attrs ==
    [Sales |-> <<"[","S","a","l","e","s","]">>,
     Region |-> <<"[","R","e","g","i","o","n","]">>,
     ProfitRatio |-> <<"[","P","r","o","f","i","t"," ","R","a","t","i","o","]">>,
     TopSales |-> <<"[","T","o","p"," ","S","a","l","e","s","]">>,
     TopN |-> <<"[","T","o","p"," ","N","]">>,
     Other |-> <<"[","O","t","h","e","r","]">>,
     Internal |-> <<"[",":","M","e","a","s","u","r","e"," ","N","a","m","e","s","]">>]

\* formula attributes of calculation elements
Formulas ==
    [ProfitRatio |-> <<"S","U","M","(","[","P","r","o","f","i","t","]",")","/", "S","U","M","(","[","S","a","l","e","s","]",")">>,
     TopSales |-> <<"[","S","a","l","e","s","]",">","[","P","a","r","a","m","e","t", "e","r","s","]",".","[","T","o","p"," ","N","]">>]

\* texts of rows and cols elements
ShelfTexts ==
    [SumSales |-> <<"[","s","u","m",":","S","a","l","e","s",":","q","k","]">>,
     Region |-> <<"[","n","o","n","e",":","R","e","g","i","o","n",":","n","k","]">>,
     Qualified |-> <<"[","O","r","d","e","r","s","]",".", "[","s","u","m",":","S","a","l","e","s",":","q","k","]">>]

\* column elements of a data source
Columns ==
    [Sales |-> [name |-> Attrs.Sales, calculation |-> None],
     Region |-> [name |-> Attrs.Region, calculation |-> None],
     Internal |-> [name |-> Attrs.Internal, calculation |-> None],
     ProfitRatio |-> [name |-> Attrs.ProfitRatio, calculation |-> Formulas.ProfitRatio],
     TopSales |-> [name |-> Attrs.TopSales, calculation |-> Formulas.TopSales]]

DataSourceElems == {
    [name |-> Names.Orders, columns |-> <<Columns.Sales, Columns.Region, Columns.ProfitRatio>>],
    [name |-> Names.Returns, columns |-> <<Columns.Sales, Columns.TopSales, Columns.Internal>>],
    [name |-> Names.Targets, columns |-> <<Columns.Region>>]}

WorksheetElems == {
    [name |-> Names.Overview, table |-> TRUE, rows |-> ShelfTexts.SumSales, cols |-> ShelfTexts.Region,
     encodings |-> <<>>],
    [name |-> Names.Detail, table |-> TRUE, rows |-> ShelfTexts.Qualified, cols |-> <<>>,
     encodings |-> <<[attr |-> "color", column |-> Attrs.Region]>>],
    [name |-> Names.Overview, table |-> FALSE, rows |-> <<>>, cols |-> <<>>,
     encodings |-> <<>>]}

\* zone elements of a dashboard
Zones ==
    [Overview |-> [name |-> Names.Overview, type |-> "", floating |-> FALSE],
     Detail |-> [name |-> Names.Detail, type |-> "", floating |-> TRUE],
     Filter |-> [name |-> Names.Region, type |-> "filter", floating |-> FALSE],
     Blank |-> [name |-> <<>>, type |-> "", floating |-> FALSE]]

DashboardElems == {
    [name |-> Names.Exec, zones |-> <<Zones.Overview, Zones.Detail>>,
     actions |-> <<[name |-> Names.Filter1, type |-> "filter",
                    sources |-> <<Names.Overview>>, targets |-> <<Names.Detail>>]>>],
    [name |-> Names.Ops,
     zones |-> <<Zones.Overview, Zones.Filter, Zones.Overview, Zones.Blank>>,
     actions |-> <<>>],
    [name |-> Names.Links, zones |-> <<>>,
     actions |-> <<[name |-> Names.Open, type |-> "web",
                    sources |-> <<Names.Detail, <<>>>>,
                    targets |-> <<Names.Overview, Names.Detail>>]>>]}

ParameterLists == {<<>>, <<Attrs.TopN>>, <<Attrs.Other, Attrs.TopN>>}

DataSourceLists == SeqsUpTo(DataSourceElems, MaxDataSources)
WorksheetLists == SeqsUpTo(WorksheetElems, MaxSheets)
\* the lists of dashboard elements, and a dashboard of floating zones alone
DashboardLists ==
    SeqsUpTo(DashboardElems, MaxDashboards)
    \cup {<<[name |-> Names.Ops, zones |-> <<Zones.Detail, Zones.Detail>>,
             actions |-> <<>>]>>}

BaseWorkbook ==
    [datasources |->
        <<[name |-> Names.Orders, columns |-> <<Columns.Sales, Columns.Region, Columns.ProfitRatio>>],
          [name |-> Names.Returns, columns |-> <<Columns.Sales, Columns.TopSales, Columns.Internal>>]>>,
     parameters |-> <<Attrs.TopN>>,
     worksheets |->
        <<[name |-> Names.Overview, table |-> TRUE, rows |-> ShelfTexts.SumSales,
           cols |-> ShelfTexts.Region, encodings |-> <<>>],
          [name |-> Names.Detail, table |-> TRUE, rows |-> ShelfTexts.Qualified, cols |-> <<>>,
           encodings |-> <<[attr |-> "color", column |-> Attrs.Region]>>]>>,
     dashboards |->
        <<[name |-> Names.Exec, zones |-> <<Zones.Overview, Zones.Detail>>,
           actions |-> <<[name |-> Names.Filter1, type |-> "filter",
                          sources |-> <<Names.Overview>>, targets |-> <<Names.Detail>>]>>]>>]

Workbooks ==
    {[BaseWorkbook EXCEPT !.datasources = ds, !.worksheets = ws] :
        ds \in DataSourceLists, ws \in WorksheetLists}
    \cup {[BaseWorkbook EXCEPT !.worksheets = ws, !.dashboards = db] :
        ws \in WorksheetLists, db \in DashboardLists}
    \cup {[BaseWorkbook EXCEPT !.datasources = ds, !.parameters = ps] :
        ds \in DataSourceLists, ps \in ParameterLists}

ExtractInit ==
    /\ workbook \in Workbooks
    /\ field_to_sheets = EmptyMap
    /\ sheet_to_dashboards = EmptyMap
    /\ metadata = NoMetadata
    /\ firstMetadata = NoMetadata
    /\ rebuilt = <<>>
    /\ extracts = 0
    /\ OthersIdle("extract")

\* the WorkbookMetadata that extract() assembles from the parsed components
WorkbookMetadata(datasources, parameters, sheets, dashboards, relationships) ==
    [datasources |-> datasources,
     parameters |-> parameters,
     sheets |-> sheets,
     dashboards |-> dashboards,
     relationships |-> relationships]

\* metadata = extractor.extract(), for a .twb file: the components are parsed
\* in the order data sources, parameters, worksheets, dashboards, the two
\* parsers of worksheets and dashboards appending to the usage maps
Extract ==
    /\ extracts < MaxExtracts
    /\ \E pick \in TableCalcPicks(workbook) :
       \E datasources \in {_parse_datasources(workbook, pick)},
          parameters \in {_parse_parameters(workbook)},
          sheets \in {_parse_worksheets(workbook)},
          fts \in {FieldUsageAfter(field_to_sheets, workbook.worksheets)},
          dashboards \in {_parse_dashboards(workbook)} :
       \E std \in {SheetUsageAfter(sheet_to_dashboards, dashboards)} :
       \E result \in {WorkbookMetadata(datasources, parameters, sheets, dashboards,
                         _build_relationships(datasources, sheets, dashboards,
                                              parameters, fts, std))} :
           /\ field_to_sheets' = fts
           /\ sheet_to_dashboards' = std
           /\ metadata' = result
           /\ firstMetadata' = IF extracts = 0 THEN result ELSE firstMetadata
    /\ rebuilt' = <<>>
    /\ extracts' = extracts + 1
    /\ UNCHANGED workbook
    /\ Others("extract")

\* _build_relationships consumes the usage lists it reads
BuildRelationshipsDraining ==
    /\ extracts > 0
    /\ rebuilt' = _build_relationships(metadata.datasources, metadata.sheets,
                                       metadata.dashboards, metadata.parameters,
                                       field_to_sheets, sheet_to_dashboards)
    /\ field_to_sheets' = [f \in DOMAIN field_to_sheets |-> <<>>]
    /\ UNCHANGED <<workbook, sheet_to_dashboards, metadata, firstMetadata, extracts>>
    /\ Others("extract")

\* rebuilt = extractor._build_relationships(metadata.datasources,
\*     metadata.sheets, metadata.dashboards, metadata.parameters)
BuildRelationships ==
    /\ extracts > 0
    /\ rebuilt' = _build_relationships(metadata.datasources, metadata.sheets,
                                       metadata.dashboards, metadata.parameters,
                                       field_to_sheets, sheet_to_dashboards)
    /\ UNCHANGED <<workbook, field_to_sheets, sheet_to_dashboards, metadata,
                   firstMetadata, extracts>>
    /\ Others("extract")

Next == Extract \/ BuildRelationships

Spec == ExtractInit /\ [][Next]_vars

(***************************************************************************)
(* Extract command runs: the CLI extract command creates one extractor     *)
(* for a workbook file and calls extract() once.  The file is plain or     *)
(* packaged; its document has one connection, one range parameter, one     *)
(* worksheet with a layout, a ruler and a trend line, and one dashboard     *)
(* with a size and a zone, and the numeric attributes of these vary.  An   *)
(* absent attribute is None.                                               *)
(***************************************************************************)
RECURSIVE DigitsValue(_)
DigitsValue(s) ==
    IF s = <<>> THEN 0
    ELSE LET d == Last(s)
             v == CHOOSE n \in 0..9 : <<"0","1","2","3","4","5","6","7","8","9">>[n + 1] = d
         IN 10 * DigitsValue(SubSeq(s, 1, Len(s) - 1)) + v

\* decimal digits, single underscores allowed between them
IsDigitRun(s) ==
    /\ s # <<>>
    /\ \A i \in 1..Len(s) : s[i] \in Digits \cup {"_"}
    /\ s[1] # "_" /\ s[Len(s)] # "_"
    /\ \A i \in 1..(Len(s) - 1) : ~(s[i] = "_" /\ s[i + 1] = "_")

Unsigned(s) == IF s # <<>> /\ s[1] \in {"+", "-"} THEN Tail(s) ELSE s

\* int(text) returns (it raises ValueError otherwise)
IntParses(text) == IsDigitRun(Unsigned(Strip(text, Whitespace)))

\* the value of int(text)
IntValue(text) ==
    LET s == Strip(text, Whitespace)
        v == DigitsValue(SelectSeq(Unsigned(s), LAMBDA c : c # "_"))
    IN IF s[1] = "-" THEN 0 - v ELSE v

IsDecimal(s) ==
    LET dot == NextPos(s, ".", 1)
        whole == IF dot = 0 THEN s ELSE SubSeq(s, 1, dot - 1)
        frac == IF dot = 0 THEN <<>> ELSE SubSeq(s, dot + 1, Len(s))
    IN /\ whole # <<>> \/ frac # <<>>
       /\ whole = <<>> \/ IsDigitRun(whole)
       /\ frac = <<>> \/ IsDigitRun(frac)

\* float(text) returns (it raises ValueError otherwise)
FloatParses(text) ==
    LET s == Lower(Unsigned(Strip(text, Whitespace)))
        e == NextPos(s, "e", 1)
    IN \/ s \in {<<"i","n","f">>, <<"n","a","n">>,
                 <<"i","n","f","i","n","i","t","y">>}
       \/ e = 0 /\ IsDecimal(s)
       \/ /\ e > 1
          /\ IsDecimal(SubSeq(s, 1, e - 1))
          /\ IsDigitRun(Unsigned(SubSeq(s, e + 1, Len(s))))

\* absent, empty, "800", "0", " 12.5" and "auto"
AttrValues ==
    {None, <<>>, <<"8","0","0">>, <<"0">>, <<" ","1","2",".","5">>,
     <<"a","u","t","o">>}

AttrNames == {"port", "step", "min", "maxwidth", "degree", "size_maxwidth", "x"}

MaxVariedAttrs == 2

\* documents in which at most MaxVariedAttrs numeric attributes are present
Documents ==
    {d \in [AttrNames -> AttrValues] :
        Cardinality({a \in AttrNames : d[a] # None}) <= MaxVariedAttrs}

S_twbx == <<".","t","w","b","x">>
Suffixes == {<<".","t","w","b">>, S_twbx, <<".","T","W","B","X">>}

is_packaged(f) == Lower(f.suffix) = S_twbx

NoAttrs == [a \in AttrNames |-> None]

\* the files: suffix of the path, whether the file is a readable zip
\* archive, the number of top-level .twb items in it, whether the document
\* is well-formed markup, and the document; a plain file is no archive, and
\* only a document that gets parsed has its attributes varied
Files ==
    {f \in [suffix : Suffixes, is_zip : BOOLEAN, twbs : 0..1,
            well_formed : BOOLEAN, doc : Documents] :
        /\ ~is_packaged(f) => (~f.is_zip /\ f.twbs = 0)
        /\ (~f.well_formed \/ (is_packaged(f) /\ (~f.is_zip \/ f.twbs = 0)))
              => f.doc = NoAttrs}

\* the finally clause leaves the directory in place
NoCleanup(td) == td

\* `if self.temp_dir: self.temp_dir.cleanup()` of the finally clause
Cleanup(td) == IF td = "present" THEN "removed" ELSE td

RunInit ==
    /\ file \in Files
    /\ rpc = "start"
    /\ temp_dir = "none"
    /\ twb_path = None
    /\ parsed = NothingParsed
    /\ exit_status = -1
    /\ OthersIdle("run")

\* an exception leaves extract() through the finally clause
Raise(error) ==
    /\ rpc' = "raised"
    /\ temp_dir' = Cleanup(temp_dir)
    /\ parsed' = [step |-> "raised", error |-> error]

\* _extract_twbx for a packaged file, self.twb_path = self.file_path otherwise
LocateDocument ==
    /\ rpc = "start"
    /\ IF ~is_packaged(file)
       THEN /\ twb_path' = <<"f","i","l","e">>
            /\ rpc' = "located"
            /\ UNCHANGED <<temp_dir, parsed>>
       ELSE IF ~file.is_zip
       THEN /\ rpc' = "raised"
            /\ temp_dir' = Cleanup("present")
            /\ parsed' = [step |-> "raised", error |-> "BadZipFile"]
            /\ UNCHANGED twb_path
       ELSE IF file.twbs = 0
       THEN /\ rpc' = "raised"
            /\ temp_dir' = Cleanup("present")
            /\ parsed' = [step |-> "raised", error |-> "ValueError"]
            /\ UNCHANGED twb_path
       ELSE /\ twb_path' = <<"t","e","m","p">>
            /\ temp_dir' = "present"
            /\ rpc' = "located"
            /\ UNCHANGED parsed
    /\ UNCHANGED <<file, exit_status>>
    /\ Others("run")

\* tree = etree.parse(str(self.twb_path)); self.root = tree.getroot()
ParseMarkup ==
    /\ rpc = "located"
    /\ IF file.well_formed
       THEN /\ rpc' = "root"
            /\ UNCHANGED <<temp_dir, parsed>>
       ELSE Raise("XMLSyntaxError")
    /\ UNCHANGED <<file, twb_path, exit_status>>
    /\ Others("run")

Truthy(v) == v # None /\ v # <<>>
Converted(ok, value) == [ok |-> ok, value |-> value]

\* int(v)
IntAttr(v) ==
    IF IntParses(v) THEN Converted(TRUE, <<IntValue(v)>>)
    ELSE Converted(FALSE, <<>>)

\* float(v); the value is kept as the text it was read from
FloatAttr(v) ==
    IF FloatParses(v) THEN Converted(TRUE, <<Strip(v, Whitespace)>>)
    ELSE Converted(FALSE, <<>>)

\* int(conn_elem.get("port")) if conn_elem.get("port") else None
ConnectionPort(doc) ==
    IF Truthy(doc.port) THEN IntAttr(doc.port) ELSE Converted(TRUE, <<>>)

\* float(range_elem.get("step", 1)) if range_elem.get("step") else None
ParameterStep(doc) ==
    IF Truthy(doc.step) THEN FloatAttr(doc.step) ELSE Converted(TRUE, <<>>)

\* float(ruler.get("min")) if ruler.get("min") else None
RulerMin(doc) ==
    IF Truthy(doc.min) THEN FloatAttr(doc.min) ELSE Converted(TRUE, <<>>)

\* int(layout.get("maxwidth", 0)) or None
LayoutWidth(doc) ==
    IF doc.maxwidth = None THEN Converted(TRUE, <<>>)
    ELSE IF IntAttr(doc.maxwidth) = Converted(TRUE, <<0>>)
    THEN Converted(TRUE, <<>>)
    ELSE IntAttr(doc.maxwidth)

\* int(trend_elem.get("degree", 1))
TrendDegree(doc) ==
    IF doc.degree = None THEN Converted(TRUE, <<1>>) ELSE IntAttr(doc.degree)

DefaultDashboardWidth == 1000

\* int(size_elem.get("maxwidth", 1000))
DashboardWidth(doc) ==
    IF doc.size_maxwidth = None THEN Converted(TRUE, <<DefaultDashboardWidth>>)
    ELSE IntAttr(doc.size_maxwidth)

\* float(zone_elem.get("x", 0))
ZoneX(doc) ==
    IF doc.x = None THEN Converted(TRUE, <<<<"0">>>>) ELSE FloatAttr(doc.x)

\* one parse step of extract(): the conversions of the step are made in
\* order, the first that fails raises ValueError out of extract()
ParseStep(from, to, conversions) ==
    /\ rpc = from
    /\ IF \A i \in 1..Len(conversions) : conversions[i].ok
       THEN /\ rpc' = to
            /\ parsed' = [step |-> to,
                          values |-> (IF from = "root" THEN <<>> ELSE parsed.values)
                                     \o [i \in 1..Len(conversions) |->
                                            conversions[i].value]]
            /\ UNCHANGED temp_dir
       ELSE Raise("ValueError")
    /\ UNCHANGED <<file, twb_path, exit_status>>
    /\ Others("run")

\* datasources = self._parse_datasources()
ParseDataSources == ParseStep("root", "datasources", <<ConnectionPort(file.doc)>>)

\* parameters = self._parse_parameters()
ParseParameters == ParseStep("datasources", "parameters", <<ParameterStep(file.doc)>>)

\* sheets = self._parse_worksheets(): _parse_visual reads the axes, the
\* layout and the trend lines in this order
ParseWorksheets ==
    ParseStep("parameters", "sheets",
              <<RulerMin(file.doc), LayoutWidth(file.doc), TrendDegree(file.doc)>>)

\* dashboards = self._parse_dashboards()
ParseDashboards ==
    ParseStep("sheets", "dashboards", <<DashboardWidth(file.doc), ZoneX(file.doc)>>)

\* the relationships are built, the WorkbookMetadata is assembled and
\* returned through the finally clause
Return ==
    /\ rpc = "dashboards"
    /\ rpc' = "returned"
    /\ temp_dir' = Cleanup(temp_dir)
    /\ parsed' = [parsed EXCEPT !.step = "metadata"]
    /\ UNCHANGED <<file, twb_path, exit_status>>
    /\ Others("run")

\* the command reports success even when extract() raised
ExitStatusZero(raised) == IF raised THEN 0 ELSE -1

\* `except Exception as e: ... sys.exit(1)` of the extract command
ExitStatus(raised) == IF raised THEN 1 ELSE -1

\* the extract command after extractor.extract(): it terminates on an
\* exception and goes on to the summary otherwise
CommandContinues ==
    /\ rpc \in {"raised", "returned"}
    /\ rpc' = IF rpc = "raised" THEN "exited" ELSE "summary"
    /\ exit_status' = ExitStatus(rpc = "raised")
    /\ UNCHANGED <<file, temp_dir, twb_path, parsed>>
    /\ Others("run")

RunNext ==
    \/ LocateDocument
    \/ ParseMarkup
    \/ ParseDataSources
    \/ ParseParameters
    \/ ParseWorksheets
    \/ ParseDashboards
    \/ Return
    \/ CommandContinues

SpecRun == RunInit /\ [][RunNext]_vars

(***************************************************************************)
(* Properties of the Name Normalizer                                       *)
(***************************************************************************)
S_Sales == <<"S","a","l","e","s">>

\* C1: the Name Normalizer is idempotent: cleaning a cleaned name returns it
\* unchanged, for every input.
C1_CleanIsIdempotent == npc = "recleaned" => recleaned = cleaned

\* the text before the first ':' of s, and the text between the first ':'
\* and the second one (or the end)
FirstSegment(s) == Upto(s, NextPos(s, ":", 1) - 1)
SecondSegment(s) ==
    LET c1 == NextPos(s, ":", 1)
        c2 == NextPos(s, ":", c1 + 1)
    IN IF c2 = 0 THEN From(s, c1 + 1) ELSE SubSeq(s, c1 + 1, c2 - 1)

\* C2: when the identifier, after bracket and federated-prefix handling,
\* contains ':', the result is the second colon-separated segment if the
\* first is (case-insensitively) a known prefix and the first segment
\* otherwise, stripped of surrounding brackets and blanks; the empty string
\* maps to the empty string.
C2_ColonSegmentRule ==
    npc = "cleaned" =>
        LET m == CleanFederated(CleanBrackets(name)) IN
        /\ name = <<>> => cleaned = <<>>
        /\ (name # <<>> /\ NextPos(m, ":", 1) # 0) =>
               cleaned = Strip(IF Lower(FirstSegment(m)) \in prefixes
                               THEN SecondSegment(m)
                               ELSE FirstSegment(m), {"[", "]", " "})

\* a mixed-case prefix was recognised and the second segment returned
C2_Witness ==
    /\ npc = "cleaned"
    /\ NextPos(name, ":", 1) # 0
    /\ FirstSegment(name) = <<"S","u","m">>
    /\ cleaned = S_Sales

(***************************************************************************)
(* Properties of the Formula Analyzer                                      *)
(***************************************************************************)
Analyzed == fpc \in {"analyzed", "reanalyzed"}

S_A == <<"A">>
S_B == <<"B">>
LodKinds == {"lod_fixed", "lod_include", "lod_exclude"}

C5_RunningSumRecorded ==
    (Analyzed /\ Contains(Upper(formula), F_RUN)
              /\ ~Contains(formula, <<"{">>) /\ ~Contains(formula, <<"}">>)) =>
        /\ analysis.calculation_type = "table_calc"
        /\ analysis.table_calc_type = S_RUNNING_SUM

\* the complexity accumulated before the final cap
RawScore(s) == LodScore(s) + TableCalcScore(s) + IfScore(s) + CaseScore(s)
               + NestedScore(s)

\* C6: the complexity score returned for any formula lies in [0, 100].
C6_ScoreInRange ==
    Analyzed => analysis.complexity_score \in 0..100

\* the signals of a formula add up to more than 100 and the score is 100
C6_Witness ==
    /\ Analyzed
    /\ RawScore(formula) > 100
    /\ analysis.complexity_score = 100

\* C7: wrapping a formula in a detectable LOD expression never lowers its
\* complexity score.
C7_LodWrapMonotonic ==
    (fpc = "reanalyzed" /\ analysis.lod_type # None) =>
        analysis.complexity_score >= baseScore

\* a table calculation scoring 40 was wrapped and scores more afterwards
C7_Witness ==
    /\ fpc = "reanalyzed"
    /\ analysis.lod_type # None
    /\ analysis.table_calc_type # None
    /\ baseScore = 40
    /\ analysis.complexity_score = 70

\* ------------------------------------------------------------------
\* Relationship Builder and repeated extraction
\* ------------------------------------------------------------------

ComponentRank(rtype) ==
    CASE rtype = "field_to_sheet" -> 1
      [] rtype = "calc_to_field" -> 2
      [] rtype = "sheet_to_dashboard" -> 3
      [] rtype = "action" -> 4
      [] rtype = "parameter" -> 5

\* the names e are the names of owners, in that order, each taken any
\* number of times
RECURSIVE FollowsOrder(_, _)
FollowsOrder(e, owners) ==
    IF e = <<>> THEN TRUE
    ELSE IF owners = <<>> THEN FALSE
    ELSE IF Head(e) = Head(owners) THEN FollowsOrder(Tail(e), owners)
    ELSE FollowsOrder(e, Tail(owners))

NamesOf(entities) == [i \in 1..Len(entities) |-> entities[i].name]

\* the owner of each edge of one component, in list order
OwnersIn(rels, rtype) ==
    LET part == SelectSeq(rels, LAMBDA e : e.relationship_type = rtype) IN
    [i \in 1..Len(part) |->
        IF rtype = "action" THEN part[i].relationship_details[1].dashboard
        ELSE part[i].source_name]

InComponentOrder(rels, m) ==
    /\ \A i \in 1..Len(rels) : \A j \in i..Len(rels) :
          ComponentRank(rels[i].relationship_type)
            <= ComponentRank(rels[j].relationship_type)
    /\ FollowsOrder(OwnersIn(rels, "field_to_sheet"),
                    FlatMap(m.datasources, LAMBDA ds : NamesOf(ds.fields)))
    /\ FollowsOrder(OwnersIn(rels, "calc_to_field"),
                    FlatMap(m.datasources, LAMBDA ds : NamesOf(ds.calculated_fields)))
    /\ FollowsOrder(OwnersIn(rels, "sheet_to_dashboard"), NamesOf(m.sheets))
    /\ FollowsOrder(OwnersIn(rels, "action"), NamesOf(m.dashboards))
    /\ FollowsOrder(OwnersIn(rels, "parameter"), NamesOf(m.parameters))

\* C9: every relationship list the builder produced has its edges in the
\* component order field_to_sheet, calc_to_field, sheet_to_dashboard, action,
\* parameter, and inside a component in the order of the owning entity list.
C9_ComponentOrder ==
    extracts > 0 => /\ InComponentOrder(metadata.relationships, metadata)
                    /\ InComponentOrder(rebuilt, metadata)

\* a list with all five components, two owners in the first one
C9_Witness ==
    /\ extracts > 0
    /\ {metadata.relationships[i].relationship_type :
           i \in 1..Len(metadata.relationships)}
         = {"field_to_sheet", "calc_to_field", "sheet_to_dashboard",
            "action", "parameter"}
    /\ Cardinality(Range(OwnersIn(metadata.relationships, "field_to_sheet"))) >= 2
    /\ Cardinality(Range(OwnersIn(metadata.relationships, "sheet_to_dashboard"))) >= 2

\* C10: a second extract() on the same extractor, for the same workbook,
\* returns the sheets, dashboards and relationship list of the first one.
C10_SecondExtractSame ==
    extracts >= 2 => /\ metadata.sheets = firstMetadata.sheets
                     /\ metadata.dashboards = firstMetadata.dashboards
                     /\ metadata.relationships = firstMetadata.relationships

(***************************************************************************)
(* Properties of the extract command run                                   *)
(***************************************************************************)
Left == {"raised", "returned", "exited", "summary"}

\* C11: on every exit path of extract() (success, archive that cannot be
\* unpacked, no .twb document found, markup parse failure, exception of a
\* later parse step) the temporary extraction directory is gone: no state
\* after extract() was left has the directory present.
C11_TempDirRemoved == rpc \in Left => temp_dir # "present"

\* a packaged workbook whose document made a later parse step raise, with
\* the directory created and removed
C11_Witness ==
    /\ is_packaged(file) /\ file.is_zip /\ file.twbs = 1 /\ file.well_formed
    /\ rpc = "raised"
    /\ parsed.error = "ValueError"
    /\ temp_dir = "removed"

\* the required structure is missing: a packaged workbook without a .twb
\* document, or a document that is not well-formed markup
MissingStructure(f) ==
    \/ is_packaged(f) /\ f.is_zip /\ f.twbs = 0
    \/ ~f.well_formed /\ (~is_packaged(f) \/ (f.is_zip /\ f.twbs = 1))

\* C17: when the required structure is missing, extract() raises and
\* returns no WorkbookMetadata (no parse step result exists, not even a
\* partial one), and the extract command terminates with a non-zero status.
C17_MissingStructureIsFatal ==
    MissingStructure(file) =>
        /\ rpc \in {"start", "located", "raised", "exited"}
        /\ parsed.step \in {"none", "raised"}
        /\ rpc = "exited" => exit_status > 0

\* the command has terminated on a document that is not well-formed
C17_Witness ==
    /\ MissingStructure(file)
    /\ rpc = "exited"
    /\ parsed = [step |-> "raised", error |-> "XMLSyntaxError"]
    /\ exit_status = 1

\* the document of the file is reached and is well-formed markup
WellFormedDocument(f) ==
    f.well_formed /\ (~is_packaged(f) \/ (f.is_zip /\ f.twbs = 1))

\* C18: for a well-formed workbook document extract() never raises,
\* whatever optional attributes are missing and whatever text the numeric
\* attributes hold.
C18_ParserNeverFails ==
    WellFormedDocument(file) => rpc \notin {"raised", "exited"}

(***************************************************************************)
(* Properties of the parsed sheets, dashboards and relationship edges      *)
(***************************************************************************)

\* C12: for every sheet produced by extraction, every field recorded in
\* dimensions_used or measures_used is also recorded in all_fields_used.
C12_AllFieldsSuperset ==
    \A i \in 1..Len(metadata.sheets) :
        (metadata.sheets[i].dimensions_used \cup metadata.sheets[i].measures_used)
            \subseteq metadata.sheets[i].all_fields_used

\* a sheet with a dimension, a measure and a field that is neither
C12_Witness ==
    \E i \in 1..Len(metadata.sheets) :
        LET sheet == metadata.sheets[i] IN
        /\ sheet.dimensions_used # {}
        /\ sheet.measures_used # {}
        /\ sheet.all_fields_used
             \ (sheet.dimensions_used \cup sheet.measures_used) # {}

\* C13: for every parsed dashboard, layout_type is "floating" iff all of its
\* zones are floating, "mixed" iff some but not all of them are, and "tiled"
\* otherwise, for every zone list, the empty one included.
C13_LayoutByZones ==
    \A i \in 1..Len(metadata.dashboards) :
        LET d == metadata.dashboards[i]
            all == \A k \in 1..Len(d.zones) : d.zones[k].is_floating
            some == \E k \in 1..Len(d.zones) : d.zones[k].is_floating
        IN /\ d.layout_type = "floating" <=> all
           /\ d.layout_type = "mixed" <=> (some /\ ~all)
           /\ d.layout_type = "tiled" <=> ~some /\ ~all

\* the positions of the edges of one type between two names
EdgesBetween(rtype, sname, tname) ==
    {e \in 1..Len(metadata.relationships) :
        /\ metadata.relationships[e].relationship_type = rtype
        /\ metadata.relationships[e].source_name = sname
        /\ metadata.relationships[e].target_name = tname}

\* the fields of all data sources of the extracted metadata
FieldsOf(datasources) ==
    UNION {Range(datasources[i].fields) : i \in 1..Len(datasources)}

\* C19: the relationship list holds exactly one field_to_sheet edge for each
\* (field, sheet) pair where the field's canonical name is used on the sheet,
\* and no field_to_sheet edge for any other pair, also when two data sources
\* define the same canonical name or two worksheets share a name.
C19_OneEdgePerFieldAndSheet ==
    /\ \A field \in FieldsOf(metadata.datasources) :
         \A j \in 1..Len(metadata.sheets) :
            field.name \in metadata.sheets[j].all_fields_used
                => Cardinality(EdgesBetween("field_to_sheet", field.name,
                                            metadata.sheets[j].name)) = 1
    /\ \A e \in 1..Len(metadata.relationships) :
         metadata.relationships[e].relationship_type = "field_to_sheet"
            => \E field \in FieldsOf(metadata.datasources) :
               \E j \in 1..Len(metadata.sheets) :
                  /\ field.name = metadata.relationships[e].source_name
                  /\ metadata.sheets[j].name = metadata.relationships[e].target_name
                  /\ field.name \in metadata.sheets[j].all_fields_used

\* C20: for every sheet recorded by zone parsing as embedded in a dashboard,
\* the relationship list holds exactly one sheet_to_dashboard edge for that
\* (sheet, dashboard) pair, also when several zones of the dashboard name the
\* same worksheet, and every name in a dashboard's worksheet list has one.
C20_OneEdgePerSheetAndDashboard ==
    \A i \in 1..Len(metadata.dashboards) :
        \A k \in 1..Len(metadata.dashboards[i].worksheets) :
            Cardinality(EdgesBetween("sheet_to_dashboard",
                                     metadata.dashboards[i].worksheets[k],
                                     metadata.dashboards[i].name)) = 1

(***************************************************************************)
(* Metadata Validator: MetadataValidator.validate (src/utils/validation.py)*)
(* A check contributes the issues it raises, in order, and the number of   *)
(* items it counts as checked.                                             *)
(***************************************************************************)
Issue(level, category, item, message) ==
    [level |-> level, category |-> category, item |-> item, message |-> message]

Checks(issues, checked) == [issues |-> issues, checked_items |-> checked]

RECURSIVE ThenAll(_)
ThenAll(checks) ==
    IF checks = <<>> THEN Checks(<<>>, 0)
    ELSE LET rest == ThenAll(Tail(checks)) IN
         Checks(Head(checks).issues \o rest.issues,
                Head(checks).checked_items + rest.checked_items)

NamesIn(entities) == {entities[i].name : i \in 1..Len(entities)}

S_Parameter == <<"P","a","r","a","m","e","t","e","r">>
S_Slash == <<"/">>
S_Colon == <<":">>
S_unknown == <<"u","n","k","n","o","w","n">>
S_workbook == <<"w","o","r","k","b","o","o","k">>
S_datasources == <<"d","a","t","a","s","o","u","r","c","e","s">>
S_sheets == <<"s","h","e","e","t","s">>

\* _validate_calculated_field: one warning per entry of referenced_fields
\* that is neither skipped nor a field or calculated field of the data source
IsMissingReference(ref_field, ds) ==
    /\ ~StartsWith(ref_field, S_Parameter)
    /\ ~StartsWith(ref_field, S_Colon)
    /\ ref_field \notin NamesIn(ds.fields) \cup NamesIn(ds.calculated_fields)

_validate_calculated_field(calc, ds) ==
    IF calc.formula = <<>>
    THEN Checks(<<Issue("error", "calculated_field", calc.name,
                        <<"has no formula", calc.name>>)>>, 1)
    ELSE LET missing == SelectSeq(calc.referenced_fields,
                                  LAMBDA ref_field : IsMissingReference(ref_field, ds))
         IN Checks(
              [i \in 1..Len(missing) |->
                  Issue("warning", "calculated_field", calc.name,
                        <<"Referenced field not found", missing[i]>>)]
              \o (IF calc.complexity_score > 70
                  THEN <<Issue("info", "calculated_field", calc.name,
                               <<"Complex calculation detected", calc.name>>)>>
                  ELSE <<>>),
              1 + Len(calc.referenced_fields))

_validate_datasource(ds) ==
    ThenAll(
      <<Checks(IF ds.name = <<>>
               THEN <<Issue("error", "datasource", S_unknown,
                            <<"Data source has no name", <<>>>>)>>
               ELSE <<>>, 1),
        Checks(IF ds.fields = <<>> /\ ds.calculated_fields = <<>>
               THEN <<Issue("warning", "datasource", ds.name,
                            <<"has no fields", ds.name>>)>>
               ELSE <<>>, 1)>>
      \o [i \in 1..Len(ds.calculated_fields) |->
             _validate_calculated_field(ds.calculated_fields[i], ds)])

_validate_visual(visual, sheet_name) ==
    Checks(
      (IF visual.chart_type = "automatic"
       THEN <<Issue("info", "visual", sheet_name,
                    <<"Chart type is set to Automatic", <<>>>>)>>
       ELSE <<>>)
      \o (IF visual.rows = <<>> /\ visual.columns = <<>>
          THEN <<Issue("info", "visual", sheet_name,
                       <<"No fields on rows or columns", <<>>>>)>>
          ELSE <<>>),
      2 + (IF visual.x_axis THEN 1 ELSE 0) + (IF visual.y_axis THEN 1 ELSE 0))

_validate_filter(filter, sheet_name) ==
    IF filter.field = <<>>
    THEN Checks(<<Issue("error", "filter", sheet_name,
                        <<"Filter has no field specified", <<>>>>)>>, 1)
    ELSE ThenAll(
      <<Checks(<<>>, 1),
        IF filter.filter_type = "categorical"
        THEN Checks(IF filter.include_values = <<>> /\ filter.exclude_values = <<>>
                    THEN <<Issue("info", "filter",
                                 sheet_name \o S_Slash \o filter.field,
                                 <<"has no explicit values", filter.field>>)>>
                    ELSE <<>>, 1)
        ELSE Checks(<<>>, 0),
        IF filter.filter_type = "range"
        THEN Checks(IF filter.range_min = None /\ filter.range_max = None
                    THEN <<Issue("warning", "filter",
                                 sheet_name \o S_Slash \o filter.field,
                                 <<"has no min or max", filter.field>>)>>
                    ELSE <<>>, 1)
        ELSE Checks(<<>>, 0)>>)

_validate_sheet(sheet, metadata_) ==
    IF sheet.name = <<>>
    THEN Checks(<<Issue("error", "sheet", S_unknown,
                        <<"Sheet has no name", <<>>>>)>>, 1)
    ELSE ThenAll(
      <<Checks(<<>>, 1),
        IF sheet.visual # <<>> THEN _validate_visual(sheet.visual[1], sheet.name)
        ELSE Checks(<<>>, 0)>>
      \o [i \in 1..Len(sheet.filters) |->
             _validate_filter(sheet.filters[i], sheet.name)]
      \o <<Checks(IF sheet.all_fields_used = {}
                  THEN <<Issue("info", "sheet", sheet.name,
                               <<"has no fields on shelves", sheet.name>>)>>
                  ELSE <<>>, 1),
           Checks(IF /\ sheet.datasource_name \notin {None, <<>>}
                     /\ sheet.datasource_name \notin NamesIn(metadata_.datasources)
                  THEN <<Issue("warning", "sheet", sheet.name,
                               <<"Referenced datasource not found",
                                 sheet.datasource_name>>)>>
                  ELSE <<>>, 1)>>)

_validate_dashboard(dashboard, metadata_) ==
    IF dashboard.name = <<>>
    THEN Checks(<<Issue("error", "dashboard", S_unknown,
                        <<"Dashboard has no name", <<>>>>)>>, 1)
    ELSE LET sheet_names == NamesIn(metadata_.sheets)
             unknown == SelectSeq(dashboard.worksheets,
                                  LAMBDA ws_name : ws_name \notin sheet_names)
             Sources(action) ==
                 SelectSeq(action.source_worksheets,
                           LAMBDA source : /\ source \notin sheet_names
                                           /\ source \notin Range(dashboard.worksheets))
         IN ThenAll(
              <<Checks(<<>>, 1),
                Checks(IF dashboard.zones = <<>>
                       THEN <<Issue("warning", "dashboard", dashboard.name,
                                    <<"has no zones", dashboard.name>>)>>
                       ELSE <<>>, 1),
                Checks([i \in 1..Len(unknown) |->
                           Issue("warning", "dashboard", dashboard.name,
                                 <<"Referenced worksheet not found", unknown[i]>>)],
                       Len(dashboard.worksheets))>>
              \o [i \in 1..Len(dashboard.actions) |->
                     Checks([k \in 1..Len(Sources(dashboard.actions[i])) |->
                                Issue("warning", "dashboard_action",
                                      dashboard.actions[i].name,
                                      <<"Action source worksheet not found",
                                        Sources(dashboard.actions[i])[k]>>)],
                            1)])

_validate_relationships(metadata_) ==
    LET field_found(rel) ==
            \E i \in 1..Len(metadata_.datasources) :
                rel.source_name \in NamesIn(metadata_.datasources[i].fields)
                    \cup NamesIn(metadata_.datasources[i].calculated_fields)
        unknown == SelectSeq(metadata_.relationships,
                             LAMBDA rel : rel.source_type = "field" /\ ~field_found(rel))
    IN Checks([i \in 1..Len(unknown) |->
                  Issue("info", "relationship", unknown[i].source_name,
                        <<"Relationship references unknown field",
                          unknown[i].source_name>>)],
              1 + Len(metadata_.relationships))

_validate_structure(metadata_) ==
    Checks(
      (IF metadata_.name = <<>>
       THEN <<Issue("error", "structure", S_workbook,
                    <<"Workbook name is missing", <<>>>>)>>
       ELSE <<>>)
      \o (IF metadata_.datasources = <<>>
          THEN <<Issue("warning", "structure", S_datasources,
                       <<"No data sources found in workbook", <<>>>>)>>
          ELSE <<>>)
      \o (IF metadata_.sheets = <<>>
          THEN <<Issue("warning", "structure", S_sheets,
                       <<"No worksheets found in workbook", <<>>>>)>>
          ELSE <<>>),
      3)

\* ValidationResult() and ValidationResult.add_issue
ValidationResult ==
    [is_valid |-> TRUE, issues |-> <<>>, warnings_count |-> 0, errors_count |-> 0,
     critical_count |-> 0, checked_items |-> 0, passed_items |-> 0]

\* add_issue that lets an error leave the result valid
add_issue_error_tolerated(result, issue) ==
    [result EXCEPT
        !.issues = Append(@, issue),
        !.warnings_count = IF issue.level = "warning" THEN @ + 1 ELSE @,
        !.errors_count = IF issue.level = "error" THEN @ + 1 ELSE @,
        !.critical_count = IF issue.level = "critical" THEN @ + 1 ELSE @,
        !.is_valid = IF issue.level = "critical" THEN FALSE ELSE @]

add_issue(result, issue) ==
    [result EXCEPT
        !.issues = Append(@, issue),
        !.warnings_count = IF issue.level = "warning" THEN @ + 1 ELSE @,
        !.errors_count = IF issue.level = "error" THEN @ + 1 ELSE @,
        !.critical_count = IF issue.level = "critical" THEN @ + 1 ELSE @,
        !.is_valid = IF issue.level \in {"error", "critical"} THEN FALSE ELSE @]

RECURSIVE AddIssues(_, _)
AddIssues(result, issues) ==
    IF issues = <<>> THEN result
    ELSE AddIssues(add_issue(result, Head(issues)), Tail(issues))

\* "Calculate final stats"
FinalStats(result, checked_items) ==
    [result EXCEPT
        !.checked_items = checked_items,
        !.passed_items = checked_items - result.errors_count - result.critical_count]

Finished(all) ==
    FinalStats(AddIssues(ValidationResult, all.issues), all.checked_items)

\* MetadataValidator.validate: structure, data sources, sheets, dashboards,
\* relationships, then the final statistics; self.strict_mode is read nowhere
validate(self, metadata_) ==
    Finished(ThenAll(
        <<_validate_structure(metadata_)>>
        \o [i \in 1..Len(metadata_.datasources) |->
               _validate_datasource(metadata_.datasources[i])]
        \o [i \in 1..Len(metadata_.sheets) |->
               _validate_sheet(metadata_.sheets[i], metadata_)]
        \o [i \in 1..Len(metadata_.dashboards) |->
               _validate_dashboard(metadata_.dashboards[i], metadata_)]
        \o <<_validate_relationships(metadata_)>>))

(***************************************************************************)
(* Validator runs: the validate command extracts a workbook with a fresh   *)
(* extractor and validates the result.  The parts of a sheet that the      *)
(* structural parser above leaves out (data source reference, mark type,   *)
(* axes, filters) are given with the worksheet element as already parsed.  *)
(* An optional visual is a sequence: empty for None, else its one value.   *)
(***************************************************************************)
\* the SheetMetadata of a worksheet element: what the structural parser
\* gives, and the parts given with the element
SheetMetadata(ws_elem, sheet) ==
    [name |-> sheet.name,
     datasource_name |-> ws_elem.datasource,
     visual |-> IF ws_elem.table
                THEN <<[chart_type |-> ws_elem.mark,
                        rows |-> sheet.rows,
                        columns |-> sheet.columns,
                        x_axis |-> ws_elem.x_axis,
                        y_axis |-> ws_elem.y_axis]>>
                ELSE <<>>,
     filters |-> ws_elem.filters,
     all_fields_used |-> sheet.all_fields_used]

\* the WorkbookMetadata extract() assembles on a fresh instance
Assembled(doc, datasources, parameters, sheets, dashboards) ==
    [name |-> doc.name,
     datasources |-> datasources,
     parameters |-> parameters,
     sheets |-> [i \in 1..Len(sheets) |-> SheetMetadata(doc.worksheets[i], sheets[i])],
     dashboards |-> dashboards,
     relationships |->
         _build_relationships(datasources, sheets, dashboards, parameters,
                              FieldUsageAfter(EmptyMap, doc.worksheets),
                              SheetUsageAfter(EmptyMap, dashboards))]

\* the WorkbookMetadata of the first extract() of an instance
FirstExtract(doc, pick) ==
    Assembled(doc, _parse_datasources(doc, pick), _parse_parameters(doc),
              _parse_worksheets(doc), _parse_dashboards(doc))

\* a data source whose calculation mentions the absent field Profit twice
TwiceMissing ==
    [name |-> Names.Profit,
     columns |-> <<Columns.Sales,
                   [name |-> Attrs.Other,
                    calculation |-> <<"[","P","r","o","f","i","t","]","-",
                                      "[","P","r","o","f","i","t","]">>]>>]

NoFilterValues ==
    [include_values |-> <<>>, exclude_values |-> <<>>,
     range_min |-> None, range_max |-> None]

Parsed(ws_elem, datasource, mark, filters) ==
    [name |-> ws_elem.name, table |-> ws_elem.table, rows |-> ws_elem.rows,
     cols |-> ws_elem.cols, encodings |-> ws_elem.encodings,
     datasource |-> datasource, mark |-> mark, x_axis |-> mark # "automatic",
     y_axis |-> FALSE, filters |-> filters]

Elem(elems, name_, table) ==
    CHOOSE e \in elems : e.name = name_ /\ e.table = table

ValidatedWorksheetElems == {
    Parsed(Elem(WorksheetElems, Names.Overview, TRUE), Names.Orders, "bar", <<>>),
    Parsed(Elem(WorksheetElems, Names.Detail, TRUE), None, "automatic",
           <<[field |-> Names.Region, filter_type |-> "categorical"] @@ NoFilterValues,
             [field |-> <<>>, filter_type |-> "categorical"] @@ NoFilterValues>>),
    Parsed(Elem(WorksheetElems, Names.Overview, FALSE), Names.Targets, "automatic",
           <<[field |-> Names.Profit, filter_type |-> "range"] @@ NoFilterValues>>),
    Parsed([Elem(WorksheetElems, Names.Overview, FALSE) EXCEPT !.name = <<>>],
           <<>>, "automatic", <<>>)}

ValidatedBase ==
    [name |-> Names.Exec,
     datasources |-> BaseWorkbook.datasources,
     parameters |-> BaseWorkbook.parameters,
     worksheets |-> <<Parsed(BaseWorkbook.worksheets[1], Names.Orders, "bar", <<>>),
                      Parsed(BaseWorkbook.worksheets[2], Names.Orders, "bar", <<>>)>>,
     dashboards |-> BaseWorkbook.dashboards]

ValidatedWorkbooks ==
    {[ValidatedBase EXCEPT !.datasources = ds] :
        ds \in SeqsUpTo(DataSourceElems \cup {TwiceMissing}, MaxDataSources)}
    \cup {[ValidatedBase EXCEPT !.worksheets = ws] :
        ws \in SeqsUpTo(ValidatedWorksheetElems, MaxSheets)}
    \cup {[ValidatedBase EXCEPT !.dashboards = db] : db \in DashboardLists}

ValidateInit ==
    /\ validator \in {[strict_mode |-> strict] : strict \in BOOLEAN}
    /\ validated \in UNION {{FirstExtract(doc, pick) : pick \in TableCalcPicks(doc)} :
                             doc \in ValidatedWorkbooks}
    /\ validation_result = NoResult
    /\ OthersIdle("validate")

\* result = validator.validate(metadata)
Validate ==
    /\ validation_result = NoResult
    /\ validation_result' = validate(validator, validated)
    /\ UNCHANGED <<validator, validated>>
    /\ Others("validate")

ValidateNext == Validate

SpecValidate == ValidateInit /\ [][ValidateNext]_vars

\* the issues of one level and category raised for an item about a name
IssuesAbout(level, category, item, about) ==
    {k \in 1..Len(validation_result.issues) :
        /\ validation_result.issues[k].level = level
        /\ validation_result.issues[k].category = category
        /\ validation_result.issues[k].item = item
        /\ validation_result.issues[k].message[2] = about}

\* the calculated fields named calc_name that reference the name ref_field,
\* absent from their data source, as (data source, calculated field) positions
MissingReferences(calc_name, ref_field) ==
    {dc \in (1..Len(validated.datasources)) \X (1..MaxNameTokens) :
        /\ dc[2] <= Len(validated.datasources[dc[1]].calculated_fields)
        /\ LET ds == validated.datasources[dc[1]]
               calc == ds.calculated_fields[dc[2]]
           IN /\ calc.name = calc_name
              /\ ref_field \in Range(calc.referenced_fields)
              /\ IsMissingReference(ref_field, ds)}

Validated == validation_result # NoResult

\* C14: validating a calculated field that references a field name absent
\* from its data source gives exactly one warning of category
\* "calculated_field" for that missing name, however many times the formula
\* mentions it, and warnings leave is_valid true.
C14_OneWarningPerMissingName ==
    Validated =>
        /\ \A i \in 1..Len(validated.datasources) :
           \A k \in 1..Len(validated.datasources[i].calculated_fields) :
              LET ds == validated.datasources[i]
                  calc == ds.calculated_fields[k]
              IN \A ref_field \in Range(calc.referenced_fields) :
                    IsMissingReference(ref_field, ds) =>
                        Cardinality(IssuesAbout("warning", "calculated_field",
                                                calc.name, ref_field))
                            = Cardinality(MissingReferences(calc.name, ref_field))
        /\ validation_result.is_valid
             = (validation_result.errors_count + validation_result.critical_count = 0)

\* C15: a validator created with strict_mode = TRUE treats warnings as
\* errors: whenever validation raises a warning, is_valid is false.
C15_StrictFailsOnWarnings ==
    (Validated /\ validator.strict_mode /\ validation_result.warnings_count > 0)
        => ~validation_result.is_valid

(***************************************************************************)
(* Metadata Comparator: MetadataComparator.compare and                     *)
(* ComparisonResult.get_match_percentage (src/utils/comparison.py).        *)
(* The differences are kept as the set of the list's entries: the entries  *)
(* of one comparison are pairwise distinct, and their order is the         *)
(* iteration order of Python sets.  Percentages are in hundredths.         *)
(***************************************************************************)
Difference(category, item_name, difference_type, severity, path) ==
    [category |-> category, item_name |-> item_name,
     difference_type |-> difference_type, severity |-> severity, path |-> path]

\* next(x for x in entities if x.name == name)
First(entities, name_) ==
    entities[Min({i \in 1..Len(entities) : entities[i].name = name_})]

\* the differences for the names found on one side only
OneSided(category, xml_names, api_names, severity, path) ==
    {Difference(category, n, "missing_in_api", severity, path) :
        n \in xml_names \ api_names}
    \cup {Difference(category, n, "missing_in_xml", severity, path) :
        n \in api_names \ xml_names}

_compare_fields(xml_fields, api_fields, datasource_name) ==
    LET xml_names == NamesIn(xml_fields)
        api_names == NamesIn(api_fields)
    IN [differences |->
           OneSided("field", xml_names, api_names, "info", datasource_name)
           \cup {Difference("field", n, "type_mismatch", "warning", datasource_name) :
                   n \in {c \in xml_names \cap api_names :
                            First(xml_fields, c).data_type
                                # First(api_fields, c).data_type}}
           \cup {Difference("field", n, "value_mismatch", "info", datasource_name) :
                   n \in {c \in xml_names \cap api_names :
                            First(xml_fields, c).role # First(api_fields, c).role}},
        count |-> Cardinality(xml_names \cup api_names)]

\* _normalize_formula: " ".join(formula.split()), the federated prefixes
\* removed, lower case
RECURSIVE JoinWords(_)
JoinWords(words) ==
    IF words = <<>> THEN <<>>
    ELSE IF Len(words) = 1 THEN Head(words)
    ELSE Head(words) \o <<" ">> \o JoinWords(Tail(words))

S_FederatedRef == <<"[","f","e","d","e","r","a","t","e","d",".">>

\* re.sub(r'\[federated\.[^\]]+\]\.', '', s): at a prefix the class runs up to
\* the first ']', which must not come at once and must be followed by '.'
RECURSIVE RemoveFederated(_)
RemoveFederated(s) ==
    IF s = <<>> THEN <<>>
    ELSE LET body == From(s, Len(S_FederatedRef) + 1)
             j == Find(body, <<"]">>)
         IN IF /\ StartsWith(s, S_FederatedRef)
               /\ j > 1
               /\ MatchAt(body, <<".">>, j + 1)
            THEN RemoveFederated(From(body, j + 2))
            ELSE <<Head(s)>> \o RemoveFederated(Tail(s))

_normalize_formula(formula_) ==
    IF formula_ = <<>> THEN <<>>
    ELSE Lower(RemoveFederated(JoinWords(
             SelectSeq(Split(formula_, <<" ">>), LAMBDA w : w # <<>>))))

_compare_calculated_fields(xml_calcs, api_calcs, datasource_name) ==
    LET xml_names == NamesIn(xml_calcs)
        api_names == NamesIn(api_calcs)
    IN [differences |->
           OneSided("calculated_field", xml_names, api_names, "warning",
                    datasource_name)
           \cup {Difference("calculated_field", n, "value_mismatch", "error",
                            datasource_name) :
                   n \in {c \in xml_names \cap api_names :
                            _normalize_formula(First(xml_calcs, c).formula)
                                # _normalize_formula(First(api_calcs, c).formula)}},
        count |-> Cardinality(xml_names \cup api_names)]

\* the sum of the counts of a set of comparisons
RECURSIVE SumCounts(_, _)
SumCounts(names, count) ==
    IF names = {} THEN 0
    ELSE LET n == CHOOSE x \in names : TRUE IN
         count[n] + SumCounts(names \ {n}, count)

_compare_datasources(xml_ds, api_ds) ==
    LET xml_names == NamesIn(xml_ds)
        api_names == NamesIn(api_ds)
        common == xml_names \cap api_names
        fields == [n \in common |->
                      _compare_fields(First(xml_ds, n).fields,
                                      First(api_ds, n).fields, n)]
        calcs == [n \in common |->
                     _compare_calculated_fields(First(xml_ds, n).calculated_fields,
                                                First(api_ds, n).calculated_fields, n)]
    IN [differences |->
           OneSided("datasource", xml_names, api_names, "warning", None)
           \cup UNION {fields[n].differences \cup calcs[n].differences : n \in common},
        count |-> Cardinality(xml_names \ api_names)
                  + Cardinality(api_names \ xml_names)
                  + SumCounts(common, [n \in common |-> fields[n].count + calcs[n].count])
                  + Cardinality(common)]

_compare_sheets(xml_sheets, api_sheets) ==
    LET xml_names == NamesIn(xml_sheets)
        api_names == NamesIn(api_sheets)
        Used(sheets, n) == Range(First(sheets, n).all_fields_used)
    IN [differences |->
           OneSided("sheet", xml_names, api_names, "warning", None)
           \cup {Difference("sheet_field", n, "missing_in_api", "info", None) :
                   n \in {c \in xml_names \cap api_names :
                            Used(xml_sheets, c) \ Used(api_sheets, c) # {}}}
           \cup {Difference("sheet_field", n, "missing_in_xml", "info", None) :
                   n \in {c \in xml_names \cap api_names :
                            Used(api_sheets, c) \ Used(xml_sheets, c) # {}}},
        count |-> Cardinality(xml_names \cup api_names)]

_compare_dashboards(xml_dashboards, api_dashboards) ==
    LET xml_names == NamesIn(xml_dashboards)
        api_names == NamesIn(api_dashboards)
    IN [differences |->
           OneSided("dashboard", xml_names, api_names, "warning", None)
           \cup {Difference("dashboard", n, "value_mismatch", "warning", None) :
                   n \in {c \in xml_names \cap api_names :
                            Range(First(xml_dashboards, c).worksheets)
                                # Range(First(api_dashboards, c).worksheets)}},
        count |-> Cardinality(xml_names \cup api_names)]

_compare_parameters(xml_params, api_params) ==
    [differences |->
        OneSided("parameter", NamesIn(xml_params), NamesIn(api_params), "warning", None),
     count |-> Cardinality(NamesIn(xml_params) \cup NamesIn(api_params))]

\* the number of differences of one severity, as add_difference counts them
Severity(differences, severity) ==
    Cardinality({d \in differences : d.severity = severity})

compare(xml, api) ==
    LET parts == <<_compare_datasources(xml.datasources, api.datasources),
                   _compare_sheets(xml.sheets, api.sheets),
                   _compare_dashboards(xml.dashboards, api.dashboards),
                   _compare_parameters(xml.parameters, api.parameters)>>
        differences ==
            (IF xml.name # api.name
             THEN {Difference("workbook", <<"n","a","m","e">>, "value_mismatch",
                              "warning", None)}
             ELSE {})
            \cup UNION {parts[i].differences : i \in 1..4}
    IN [differences |-> differences,
        total_differences |-> Cardinality(differences),
        critical_differences |-> Severity(differences, "critical"),
        error_differences |-> Severity(differences, "error"),
        warning_differences |-> Severity(differences, "warning"),
        info_differences |-> Severity(differences, "info"),
        summary |-> [total_items_compared |->
                        1 + parts[1].count + parts[2].count + parts[3].count
                          + parts[4].count]]

\* round(max(0, 100 - weighted_diff / total_items * 10), 2) in hundredths.
\* A value halfway between two hundredths is a float next to the tie, which
\* rounds to either side.
Rounded(num, total_items) ==
    LET q == num \div total_items
        r == num % total_items
    IN IF num >= 10000 * total_items THEN {0}
       ELSE IF 2 * r < total_items THEN {10000 - q}
       ELSE IF 2 * r > total_items THEN {10000 - q - 1}
       ELSE {10000 - q, 10000 - q - 1}

get_match_percentage(result) ==
    IF result.summary.total_items_compared = 0 THEN {10000}
    ELSE Rounded(500 * (8 * result.critical_differences
                        + 4 * result.error_differences
                        + 2 * result.warning_differences
                        + result.info_differences),
                 result.summary.total_items_compared)

(***************************************************************************)
(* Comparator runs: the XML side is a workbook with up to MaxFields fields *)
(* and up to MaxParameters parameters, the API side is the same workbook   *)
(* after one edit.                                                         *)
(***************************************************************************)
RECURSIVE Decimal(_)
Decimal(n) ==
    LET d == <<<<"0","1","2","3","4","5","6","7","8","9">>[(n % 10) + 1]>> IN
    IF n < 10 THEN d ELSE Decimal(n \div 10) \o d

Numbered(count) == [k \in 1..count |-> [name |-> <<"P">> \o Decimal(k)]]

ParameterCounts == {n \in 0..MaxParameters : n < 4 \/ n % 250 = 0}

ComparedField(name_, data_type, role) ==
    [name |-> name_, data_type |-> data_type, role |-> role]

ComparedFields ==
    [k \in 1..MaxFields |->
        IF k = 1 THEN ComparedField(Names.Region, "string", "dimension")
        ELSE ComparedField(<<"F">> \o Decimal(k), "real", "measure")]

XmlMetadata(fields, parameters) ==
    [name |-> Names.Exec,
     datasources |->
        <<[name |-> Names.Orders,
           fields |-> SubSeq(ComparedFields, 1, fields),
           calculated_fields |->
               <<[name |-> Names.ProfitRatio, formula |-> Formulas.ProfitRatio]>>]>>,
     sheets |-> <<[name |-> Names.Overview,
                   all_fields_used |-> <<Names.Region>>]>>,
     dashboards |-> <<[name |-> Names.Exec, worksheets |-> <<Names.Overview>>]>>,
     parameters |-> Numbered(parameters)]

Edits == {"same", "extra_field", "same_name_field", "data_type", "role",
          "missing_field", "extra_datasource", "no_datasource", "spacing",
          "federated", "formula", "extra_calc", "sheet_fields", "no_sheet",
          "dashboard_sheets", "extra_parameter", "renamed"}

\* the API-side metadata: the XML-side metadata after one edit
Edited(xml, edit) ==
    LET fields == xml.datasources[1].fields
        text == xml.datasources[1].calculated_fields[1].formula
    IN CASE edit = "extra_field" ->
              [xml EXCEPT !.datasources[1].fields =
                  Append(@, ComparedField(Names.Profit, "real", "measure"))]
         [] edit = "same_name_field" /\ fields # <<>> ->
              [xml EXCEPT !.datasources[1].fields =
                  Append(@, ComparedField(fields[1].name, "real", "measure"))]
         [] edit = "data_type" /\ fields # <<>> ->
              [xml EXCEPT !.datasources[1].fields[1].data_type = "integer"]
         [] edit = "role" /\ fields # <<>> ->
              [xml EXCEPT !.datasources[1].fields[1].role = "measure"]
         [] edit = "missing_field" /\ fields # <<>> ->
              [xml EXCEPT !.datasources[1].fields = Tail(@)]
         [] edit = "extra_datasource" ->
              [xml EXCEPT !.datasources =
                  Append(@, [name |-> Names.Returns, fields |-> <<>>,
                             calculated_fields |-> <<>>])]
         [] edit = "no_datasource" -> [xml EXCEPT !.datasources = <<>>]
         [] edit = "spacing" ->
              [xml EXCEPT !.datasources[1].calculated_fields[1].formula =
                  <<" ">> \o @ \o <<" ", " ">>]
         [] edit = "federated" ->
              [xml EXCEPT !.datasources[1].calculated_fields[1].formula =
                  Upto(text, 4) \o S_FederatedRef \o <<"x","]",".">> \o From(text, 5)]
         [] edit = "formula" ->
              [xml EXCEPT !.datasources[1].calculated_fields[1].formula = Upto(@, 13)]
         [] edit = "extra_calc" ->
              [xml EXCEPT !.datasources[1].calculated_fields =
                  Append(@, [name |-> Names.TopSales, formula |-> Formulas.TopSales])]
         [] edit = "sheet_fields" ->
              [xml EXCEPT !.sheets[1].all_fields_used = <<Names.Profit>>]
         [] edit = "no_sheet" -> [xml EXCEPT !.sheets = <<>>]
         [] edit = "dashboard_sheets" ->
              [xml EXCEPT !.dashboards[1].worksheets = <<Names.Overview, Names.Detail>>]
         [] edit = "extra_parameter" ->
              [xml EXCEPT !.parameters = Append(@, [name |-> Names.TopN])]
         [] edit = "renamed" -> [xml EXCEPT !.name = Names.Ops]
         [] OTHER -> xml

CompareInit ==
    /\ xml_metadata \in {XmlMetadata(fields, parameters) :
                            fields \in 0..MaxFields, parameters \in ParameterCounts}
    /\ api_metadata \in {Edited(xml_metadata, edit) : edit \in Edits}
    /\ comparison_result = NoResult
    /\ match_percentage = -1
    /\ OthersIdle("compare")

\* result = comparator.compare(xml_metadata, api_metadata)
Compare ==
    /\ comparison_result = NoResult
    /\ comparison_result' = compare(xml_metadata, api_metadata)
    /\ UNCHANGED <<xml_metadata, api_metadata, match_percentage>>
    /\ Others("compare")

\* result.get_match_percentage()
GetMatchPercentage ==
    /\ comparison_result # NoResult
    /\ match_percentage = -1
    /\ match_percentage' \in get_match_percentage(comparison_result)
    /\ UNCHANGED <<xml_metadata, api_metadata, comparison_result>>
    /\ Others("compare")

CompareNext == Compare \/ GetMatchPercentage

SpecCompare == CompareInit /\ [][CompareNext]_vars

\* the API side is the XML side with one more field in one data source
OneExtraField ==
    \E d \in 1..Len(xml_metadata.datasources) :
        /\ Len(api_metadata.datasources) = Len(xml_metadata.datasources)
        /\ api_metadata.datasources[d].fields # <<>>
        /\ api_metadata =
             [xml_metadata EXCEPT !.datasources[d].fields =
                 Append(@, Last(api_metadata.datasources[d].fields))]

\* C16: comparing two metadata sets that differ only in one extra field on
\* the API side gives exactly one difference, of type missing_in_xml at info
\* or warning severity, and a match percentage strictly less than 100, for
\* every size of the compared sets.
C16_OneExtraFieldOneDifference ==
    (OneExtraField /\ comparison_result # NoResult) =>
        /\ comparison_result.total_differences = 1
        /\ \A d \in comparison_result.differences :
              /\ d.difference_type = "missing_in_xml"
              /\ d.severity \in {"info", "warning"}
        /\ match_percentage # -1 => match_percentage < 10000

(***************************************************************************)
(* Further properties of the Formula Analyzer                              *)
(***************************************************************************)
\* C21: the nested flag is set (and 15 added to the complexity) if and only
\* if the formula contains more than one '{' or the deduplicated function
\* list has more than 3 entries; repeated calls of the same function do not
\* make a formula nested.
C21_NestedByDistinctFunctions ==
    Analyzed =>
        /\ analysis.has_nested
             = (\/ Cardinality(Occurrences(formula, <<"{">>)) > 1
                \/ Cardinality(analysis.functions) > 3)
        /\ NestedScore(formula) = IF analysis.has_nested THEN 15 ELSE 0

(***************************************************************************)
(* The ComparisonResult object: differences are added one by one, the      *)
(* summary is assigned, and the match percentage is asked for.             *)
(***************************************************************************)
\* ComparisonResult(xml_source, api_source): no difference, an empty summary
\* (whose total_items_compared reads as 0)
ComparisonResult ==
    [differences |-> <<>>,
     total_differences |-> 0,
     critical_differences |-> 0,
     error_differences |-> 0,
     warning_differences |-> 0,
     info_differences |-> 0,
     summary |-> [total_items_compared |-> 0]]

\* add_difference without the count of the info severity
add_difference_info_uncounted(result, diff) ==
    [result EXCEPT
        !.differences = Append(@, diff),
        !.total_differences = @ + 1,
        !.critical_differences = IF diff.severity = "critical" THEN @ + 1 ELSE @,
        !.error_differences = IF diff.severity = "error" THEN @ + 1 ELSE @,
        !.warning_differences = IF diff.severity = "warning" THEN @ + 1 ELSE @]

add_difference(result, diff) ==
    [result EXCEPT
        !.differences = Append(@, diff),
        !.total_differences = @ + 1,
        !.critical_differences = IF diff.severity = "critical" THEN @ + 1 ELSE @,
        !.error_differences = IF diff.severity = "error" THEN @ + 1 ELSE @,
        !.warning_differences = IF diff.severity = "warning" THEN @ + 1 ELSE @,
        !.info_differences =
            IF diff.severity \notin {"critical", "error", "warning"} THEN @ + 1 ELSE @]

DifferenceSeverity == {"critical", "error", "warning", "info"}

ItemCounts == {1, 2, 7, 40}

ResultInit ==
    /\ xml_metadata = NoMetadata
    /\ api_metadata = NoMetadata
    /\ comparison_result = ComparisonResult
    /\ match_percentage = -1
    /\ OthersIdle("compare")

\* result.add_difference(diff)
AddDifference ==
    /\ match_percentage = -1
    /\ comparison_result.total_differences < MaxDifferences
    /\ \E severity \in DifferenceSeverity :
           comparison_result' =
               add_difference(comparison_result,
                              Difference("field", Names.Region, "value_mismatch",
                                         severity, None))
    /\ UNCHANGED <<xml_metadata, api_metadata, match_percentage>>
    /\ Others("compare")

\* result.summary = {"total_items_compared": total_items, ...}
Summarise ==
    /\ match_percentage = -1
    /\ comparison_result.summary.total_items_compared = 0
    /\ \E total_items \in ItemCounts :
           comparison_result' =
               [comparison_result EXCEPT !.summary.total_items_compared = total_items]
    /\ UNCHANGED <<xml_metadata, api_metadata, match_percentage>>
    /\ Others("compare")

ResultNext == AddDifference \/ Summarise \/ GetMatchPercentage

SpecResult == ResultInit /\ [][ResultNext]_vars

\* C28: after any sequence of add_difference calls on a ComparisonResult,
\* total_differences equals the length of the differences list and equals the
\* sum of the critical, error, warning and info counters; consequently the
\* match percentage (in hundredths) always lies in [0, 100] and is 100 when
\* no item was compared.
C28_CountersAndPercentage ==
    /\ comparison_result.total_differences = Len(comparison_result.differences)
    /\ comparison_result.total_differences
         = comparison_result.critical_differences
           + comparison_result.error_differences
           + comparison_result.warning_differences
           + comparison_result.info_differences
    /\ match_percentage # -1 =>
           /\ match_percentage \in 0..10000
           /\ comparison_result.summary.total_items_compared = 0 =>
                  match_percentage = 10000

\* differences of several severities were added and the percentage of a
\* summarised result was asked for
C28_Witness ==
    /\ comparison_result.total_differences = MaxDifferences
    /\ comparison_result.info_differences > 0
    /\ comparison_result.critical_differences > 0
    /\ comparison_result.summary.total_items_compared > 0
    /\ match_percentage \in 1..9999

(***************************************************************************)
(* The ValidationResult object: a result is constructed and issues are     *)
(* added to it one by one, or it is the one validate() returns.            *)
(***************************************************************************)
ValidationLevel == {"info", "warning", "error", "critical"}

\* result = ValidationResult()
Construct ==
    /\ validation_result = NoResult
    /\ validation_result' = ValidationResult
    /\ UNCHANGED <<validator, validated>>
    /\ Others("validate")

S_added == <<"a","d","d","e","d">>

\* result.add_issue(issue), at most MaxIssues times
AddIssue ==
    /\ validation_result # NoResult
    /\ Len(SelectSeq(validation_result.issues, LAMBDA i : i.message = S_added))
           < MaxIssues
    /\ \E level \in ValidationLevel :
           validation_result' =
               add_issue(validation_result,
                         Issue(level, "structure", S_workbook, S_added))
    /\ UNCHANGED <<validator, validated>>
    /\ Others("validate")

IssuesNext == Construct \/ AddIssue \/ Validate

SpecIssues == ValidateInit /\ [][IssuesNext]_vars

\* the step added an issue of one of the levels to a result
Added(levels) ==
    /\ validation_result # NoResult
    /\ Len(validation_result'.issues) = Len(validation_result.issues) + 1
    /\ Last(validation_result'.issues).level \in levels

\* C29: after any sequence of add_issue calls on a ValidationResult, is_valid
\* is true if and only if errors_count = 0 and critical_count = 0; info and
\* warning issues never change is_valid, is_valid never returns to true once
\* false, and after validate() passed_items satisfies
\* 0 <= passed_items <= checked_items.
C29_ValidUnlessErrors ==
    /\ [](Validated =>
            /\ validation_result.is_valid
                 = (validation_result.errors_count = 0
                    /\ validation_result.critical_count = 0)
            /\ 0 <= validation_result.passed_items
            /\ validation_result.passed_items <= validation_result.checked_items)
    /\ [][/\ Added({"info", "warning"}) =>
                validation_result'.is_valid = validation_result.is_valid
          /\ (Validated /\ ~validation_result.is_valid) =>
                ~validation_result'.is_valid]_vars

\* validate() returned a result that holds warnings and errors, so that fewer
\* items passed than were checked, and an issue was added to it
C29_Witness ==
    /\ Validated
    /\ validation_result.warnings_count > 0
    /\ validation_result.errors_count > 0
    /\ validation_result.passed_items < validation_result.checked_items
    /\ ~validation_result.is_valid
    /\ Last(validation_result.issues).message = S_added

(***************************************************************************)
(* Element parsers: _parse_parameters, _parse_fields and                   *)
(* _parse_calculated_fields, _parse_joins, _parse_shelf,                   *)
(* _parse_dashboard_zone and _parse_single_filter, each applied to one     *)
(* markup element.  An absent attribute is None; a child element is        *)
(* <<>> when absent and <<e>> when present, e being the record of its      *)
(* attributes or the sequence of its own children.                         *)
(***************************************************************************)
Quotes == {"'", "\""}

\* float(text) of a parsable text; the inputs carry whole numbers
Float(text) == <<"float", IntValue(text)>>

\* the ParameterMetadata built from one column of the Parameters data
\* source; a nameless column is skipped, a step that is not a number raises
ParameterMetadata(col_elem) ==
    LET name_ == Strip(col_elem.name, {"[", "]"})
        range_elem == col_elem.range
        members_elem == col_elem.members
        ranged == range_elem # <<>> /\ Truthy(range_elem[1].granularity)
        values == IF members_elem = <<>> THEN <<>>
                  ELSE [i \in 1..Len(SelectSeq(members_elem[1], Truthy)) |->
                           Strip(SelectSeq(members_elem[1], Truthy)[i], Quotes)]
    IN IF name_ = <<>> THEN [tag |-> "skipped"]
       ELSE IF ranged /\ Truthy(range_elem[1].step) /\ ~FloatParses(range_elem[1].step)
       THEN [tag |-> "raised"]
       ELSE [tag |-> "parameter",
             name |-> name_,
             allowable_values_type |->
                 IF members_elem # <<>> THEN "list"
                 ELSE IF ranged THEN "range" ELSE "all",
             allowable_values |-> values,
             range_min |-> IF ranged THEN range_elem[1].min ELSE None,
             range_max |-> IF ranged THEN range_elem[1].max ELSE None,
             step_size |-> IF ranged /\ Truthy(range_elem[1].step)
                           THEN Float(range_elem[1].step) ELSE None]

ParseParameter ==
    /\ epc = "input"
    /\ element.tag = "parameter-column"
    /\ parsed_item' = ParameterMetadata(element)
    /\ epc' = "parsed"
    /\ UNCHANGED element
    /\ Others("element")

\* C22: for every parsed parameter exactly one allowable-value kind applies:
\* the type is "range" when a range descriptor is present (and then the member
\* value list is empty), "list" when a member list is present (and then
\* range_min, range_max and step_size are unset), and "all" exactly when
\* neither a range descriptor nor a member list is present.
C22_OneAllowableKind ==
    (epc = "parsed" /\ parsed_item.tag = "parameter") =>
        /\ element.range # <<>> =>
               parsed_item.allowable_values_type = "range" /\ parsed_item.allowable_values = <<>>
        /\ element.members # <<>> =>
               /\ parsed_item.allowable_values_type = "list"
               /\ parsed_item.range_min = None
               /\ parsed_item.range_max = None
               /\ parsed_item.step_size = None
        /\ parsed_item.allowable_values_type = "all"
               <=> (element.range = <<>> /\ element.members = <<>>)

\* _parse_fields and _parse_calculated_fields of one data source element
ParseColumns ==
    /\ epc = "input"
    /\ element.tag = "datasource"
    /\ \E pick \in TableCalcPicks([datasources |-> <<element>>]) :
           parsed_item' = [tag |-> "columns",
                           fields |-> _parse_fields(element),
                           calculated_fields |-> _parse_calculated_fields(element, pick)]
    /\ epc' = "parsed"
    /\ UNCHANGED element
    /\ Others("element")

IsInternalName(n) ==
    n = <<>> \/ StartsWith(n, K_Calculation) \/ StartsWith(n, K_Colon)

\* how many entries of a parsed list come from the column: its entries carry
\* the cleaned column name, and the columns of an input have distinct names
EntriesOf(list, col) ==
    Cardinality({i \in 1..Len(list) : list[i].name = _clean_field_name(col.name)})

\* C23: every column of a data source is routed to exactly one outcome: a
\* column that carries a calculation sub-element becomes a CalculatedField and
\* never a Field; a column without one whose name is internal (empty,
\* '[Calculation_' prefix, '[:' prefix) is skipped; every other column becomes
\* a Field.  No column carrying a calculation sub-element is lost from both
\* lists.
C23_ColumnRoutedOnce ==
    (epc = "parsed" /\ parsed_item.tag = "columns") =>
        \A k \in 1..Len(element.columns) :
            LET col == element.columns[k]
                as_field == EntriesOf(parsed_item.fields, col)
                as_calc == EntriesOf(parsed_item.calculated_fields, col)
            IN IF col.calculation # None THEN as_calc = 1 /\ as_field = 0
               ELSE IF IsInternalName(col.name) THEN as_calc = 0 /\ as_field = 0
               ELSE as_calc = 0 /\ as_field = 1

\* element.get(attr, default)
GetOr(value, default) == IF value = None THEN default ELSE value

\* the clause dict _parse_joins builds from one expression element
JoinClause(expression) ==
    LET expr_children == expression.children
        both == Len(expr_children) >= 2
    IN [operator |-> expression.op,
        left |-> IF both THEN GetOr(expr_children[1].op, <<>>) ELSE None,
        right |-> IF both THEN GetOr(expr_children[2].op, <<>>) ELSE None]

\* the join dict _parse_joins builds from one relation element that has a
\* join attribute; a clause without an expression contributes nothing
JoinOf(relation) ==
    [tag |-> "join",
     type |-> relation.join,
     left_table |-> IF Len(relation.relations) > 0
                    THEN relation.relations[1] ELSE None,
     right_table |-> IF Len(relation.relations) > 1
                     THEN relation.relations[2] ELSE None,
     clauses |-> FlatMap(relation.clauses, LAMBDA clause :
                    IF clause = <<>> THEN <<>> ELSE <<JoinClause(clause[1])>>)]

ParseJoin ==
    /\ epc = "input"
    /\ element.tag = "relation"
    /\ parsed_item' = JoinOf(element)
    /\ epc' = "parsed"
    /\ UNCHANGED element
    /\ Others("element")

\* the clause of a parsed single-clause join, with its expression element
JoinParsed ==
    /\ epc = "parsed"
    /\ parsed_item.tag = "join"
    /\ Len(element.clauses) = 1
    /\ element.clauses[1] # <<>>

\* C24: for each join clause the left operand is taken from the first child
\* of the comparison expression and the right operand from the second; when
\* the expression has fewer than two children only the operand whose child is
\* missing is left unset (with exactly one child the left operand is set and
\* the right is unset), and parsing does not fail.
C24_OperandsByChild ==
    JoinParsed =>
        LET children == element.clauses[1][1].children
            clause == parsed_item.clauses[1]
        IN /\ Len(parsed_item.clauses) = 1
           /\ clause.left = IF Len(children) >= 1
                            THEN GetOr(children[1].op, <<>>) ELSE None
           /\ clause.right = IF Len(children) >= 2
                             THEN GetOr(children[2].op, <<>>) ELSE None

\* _parse_shelf of a worksheet whose rows or cols element is element
ParseShelf ==
    /\ epc = "input"
    /\ element.tag = "shelf"
    /\ parsed_item' = [tag |-> "mappings",
                       mappings |-> _parse_shelf(element.text, element.shelf)]
    /\ epc' = "parsed"
    /\ UNCHANGED element
    /\ Others("element")

S_Field == <<"F","i","e","l","d">>
S_sum == <<"s","u","m">>
\* the two notations: SUM([Field]) and [sum:Field:qk]
T_Functional == <<"S","U","M","(","[">> \o S_Field \o <<"]",")">>
T_Prefixed == <<"[">> \o S_sum \o <<":">> \o S_Field \o <<":","q","k","]">>

\* C25: shelf parsing recognises both aggregation notations: for shelf text
\* SUM([Field]) and for shelf text [sum:Field:qk] the resulting shelf entry
\* has aggregation "sum" and canonical field name "Field"; every shelf entry
\* records an aggregation (a lowercased function name or "none"), the
\* canonical field name and the original raw token.
C25_BothNotations ==
    (epc = "parsed" /\ parsed_item.tag = "mappings") =>
        /\ element.text \in {T_Functional, T_Prefixed} =>
               /\ Len(parsed_item.mappings) = 1
               /\ parsed_item.mappings[1].aggregation = S_sum
               /\ parsed_item.mappings[1].field = S_Field
        /\ \A i \in 1..Len(parsed_item.mappings) :
               /\ parsed_item.mappings[i].aggregation
                      \in AGGREGATION_MAP_KEYS \cup {S_none}
               /\ parsed_item.mappings[i].original = BracketTokens(element.text)[i]
               /\ parsed_item.mappings[i].field
                      = _clean_field_name(parsed_item.mappings[i].field)

ParseZone ==
    /\ epc = "input"
    /\ element.tag = "zone"
    /\ parsed_item' = [tag |-> "zone", zone |-> _parse_dashboard_zone(element)]
    /\ epc' = "parsed"
    /\ UNCHANGED element
    /\ Others("element")

\* C26: zone classification follows the priority mapping text / web / image /
\* paramctrl -> parameter / filter / legend / color -> legend / horizontal or
\* vertical -> container; a zone is classified "worksheet" (with its name as
\* the worksheet reference) only when it has a name and no type attribute,
\* and every zone that is neither mapped nor a named non-typed zone is
\* classified "blank" with no worksheet reference.
C26_ZoneClassification ==
    (epc = "parsed" /\ parsed_item.tag = "zone") =>
        LET zone == parsed_item.zone
            mapped == element.type \in DOMAIN ZONE_TYPES
            named_untyped == element.name # <<>> /\ element.type = ""
        IN /\ mapped => zone.zone_type = ZONE_TYPES[element.type]
           /\ zone.zone_type = "worksheet" => named_untyped
           /\ (named_untyped /\ ~mapped) =>
                  zone.zone_type = "worksheet" /\ zone.worksheet_name = element.name
           /\ (~mapped /\ ~named_untyped) =>
                  zone.zone_type = "blank" /\ zone.worksheet_name = None

\* float(text) / int(text) inside try ... except ValueError: pass
TryFloat(text) == IF FloatParses(text) THEN Float(text) ELSE text
TryInt(val) == IF Truthy(val) /\ IntParses(val) THEN <<"int", IntValue(val)>> ELSE None

\* the member values of the member group filters, quotes stripped
MemberValues(members) ==
    [i \in 1..Len(SelectSeq(members, Truthy)) |->
        Strip(SelectSeq(members, Truthy)[i], Quotes)]

\* filter_elem.find(".//calculation"): the first calculation element below
\* the filter, the one of its condition coming ahead of its own
FirstCalculation(filter_elem) ==
    IF filter_elem.condition # <<>> /\ filter_elem.condition[1].calculation # <<>>
    THEN filter_elem.condition[1].calculation
    ELSE filter_elem.calculation

\* the filter type _parse_single_filter ends with: each check that finds its
\* element overrides the type set by the checks before it
FilterTypeOf(filter_elem) ==
    IF FirstCalculation(filter_elem) # <<>>
          /\ Truthy(FirstCalculation(filter_elem)[1].formula) THEN "formula"
    ELSE IF filter_elem.top # <<>> THEN "top_n"
    ELSE IF filter_elem.condition # <<>> THEN "condition"
    ELSE IF filter_elem.relative_date # <<>> THEN "relative_date"
    ELSE IF filter_elem.range # <<>> THEN "range"
    ELSE "categorical"

\* _generate_filter_explanation: the text it returns, as the template it
\* fills in
_generate_filter_explanation(f) ==
        IF f.filter_type = "categorical" THEN
            IF f.include_values # <<>> THEN
                IF Len(f.include_values) = 1
                THEN "Show only records where [{field}] equals '{include_values[0]}'"
                ELSE "Show records where [{field}] is one of: '{vals}'{suffix}"
            ELSE IF f.exclude_values # <<>>
            THEN "Exclude records where [{field}] is: '{vals}'"
            ELSE "Categorical filter on [{field}]"
        ELSE IF f.filter_type = "range" THEN
            IF f.range_min # None /\ f.range_max # None
            THEN "Show records where [{field}] is between {range_min} and {range_max}"
            ELSE IF f.range_min # None THEN "Show records where [{field}] >= {range_min}"
            ELSE IF f.range_max # None THEN "Show records where [{field}] <= {range_max}"
            ELSE "Range filter on [{field}]"
        ELSE IF f.filter_type = "relative_date" THEN
            IF f.relative_date_type = <<"l","a","s","t">>
            THEN "Show records from the last {relative_date_value} {relative_date_period}"
            ELSE IF f.relative_date_type = <<"n","e","x","t">>
            THEN "Show records for the next {relative_date_value} {relative_date_period}"
            ELSE IF f.relative_date_type = <<"c","u","r","r","e","n","t">>
            THEN "Show records for the current {relative_date_period}"
            ELSE "Relative date filter on [{field}]"
        ELSE IF f.filter_type = "top_n"
        THEN "Show {direction} {top_n_value} values of [{field}]{by_field}"
        ELSE IF f.filter_type = "condition" THEN
            IF Truthy(f.condition_aggregation) /\ Truthy(f.condition_comparison)
                  /\ Truthy(f.condition_value)
            THEN "Show records where {condition_aggregation}([{field}]) {condition_comparison} {condition_value}"
            ELSE IF Truthy(f.condition_formula)
            THEN "Condition filter: {condition_formula}"
            ELSE "Condition filter on [{field}]"
        ELSE IF Truthy(f.formula) THEN "Formula filter: {formula}"
        ELSE "Formula filter on [{field}]"

\* the FilterMetadata _parse_single_filter builds, before its explanation
FilterFields(filter_elem, field) ==
    LET gf == filter_elem.groupfilter
        range_elem == filter_elem.range
        relative_date == filter_elem.relative_date
        condition == filter_elem.condition
        cond_calc == IF condition = <<>> THEN <<>> ELSE condition[1].calculation
        top_n == filter_elem.top
        formula_elem == FirstCalculation(filter_elem)
        Attr(child, attr(_)) == IF child = <<>> THEN None ELSE attr(child[1])
    IN [field |-> field,
        filter_type |-> FilterTypeOf(filter_elem),
        is_context_filter |-> filter_elem.context,
        include_values |->
            IF gf = <<>> THEN <<>>
            ELSE IF gf[1].function = "member" THEN MemberValues(<<gf[1].member>>)
            ELSE IF gf[1].function \in {"union", "intersection"}
            THEN MemberValues(gf[1].members)
            ELSE <<>>,
        exclude_values |->
            IF gf # <<>> /\ gf[1].function = "except"
            THEN MemberValues(gf[1].members) ELSE <<>>,
        include_null |-> ~(gf # <<>> /\ gf[1].except_null),
        range_min |-> IF range_elem = <<>> THEN None
                      ELSE IF Truthy(range_elem[1].min) THEN TryFloat(range_elem[1].min)
                      ELSE range_elem[1].min,
        range_max |-> IF range_elem = <<>> THEN None
                      ELSE IF Truthy(range_elem[1].max) THEN TryFloat(range_elem[1].max)
                      ELSE range_elem[1].max,
        relative_date_type |-> Attr(relative_date, LAMBDA e : e.type),
        relative_date_period |-> Attr(relative_date, LAMBDA e : e.period),
        relative_date_value |->
            IF relative_date = <<>> THEN None ELSE TryInt(relative_date[1].value),
        top_n_value |-> IF top_n = <<>> THEN None ELSE TryInt(top_n[1].value),
        top_n_field |-> IF top_n = <<>> THEN None
                        ELSE _clean_field_name(GetOr(top_n[1].column, <<>>)),
        top_n_direction |-> IF top_n = <<>> THEN None
                            ELSE GetOr(top_n[1].type, <<"t","o","p">>),
        condition_formula |-> Attr(condition, LAMBDA e : e.formula),
        condition_aggregation |-> Attr(cond_calc, LAMBDA e : e.aggregation),
        condition_comparison |-> Attr(cond_calc, LAMBDA e : e.comparison),
        condition_value |-> Attr(cond_calc, LAMBDA e : e.value),
        formula |-> IF FilterTypeOf(filter_elem) = "formula"
                    THEN formula_elem[1].formula ELSE None]

Explained(filter) ==
    [tag |-> "filter",
     filter |-> filter,
     calculation_explanation |-> _generate_filter_explanation(filter)]

_parse_single_filter(filter_elem, field) == Explained(FilterFields(filter_elem, field))

ParseFilter ==
    /\ epc = "input"
    /\ element.tag = "filter"
    /\ parsed_item' = _parse_single_filter(element, S_Field)
    /\ epc' = "parsed"
    /\ UNCHANGED element
    /\ Others("element")

\* the kind each template of _generate_filter_explanation belongs to
ExplainedKind(template) ==
    IF template \in {"Show only records where [{field}] equals '{include_values[0]}'",
                     "Show records where [{field}] is one of: '{vals}'{suffix}",
                     "Exclude records where [{field}] is: '{vals}'",
                     "Categorical filter on [{field}]"} THEN "categorical"
    ELSE IF template \in {"Show records where [{field}] is between {range_min} and {range_max}",
                          "Show records where [{field}] >= {range_min}",
                          "Show records where [{field}] <= {range_max}",
                          "Range filter on [{field}]"} THEN "range"
    ELSE IF template \in {"Show records from the last {relative_date_value} {relative_date_period}",
                          "Show records for the next {relative_date_value} {relative_date_period}",
                          "Show records for the current {relative_date_period}",
                          "Relative date filter on [{field}]"} THEN "relative_date"
    ELSE IF template = "Show {direction} {top_n_value} values of [{field}]{by_field}"
    THEN "top_n"
    ELSE IF template \in {"Show records where {condition_aggregation}([{field}]) {condition_comparison} {condition_value}",
                          "Condition filter: {condition_formula}",
                          "Condition filter on [{field}]"} THEN "condition"
    ELSE "formula"

\* the children of a filter element that distinguish its shape: its own
\* calculation counts when it bears a formula
ChildKinds(filter_elem) ==
    {k \in {"categorical", "range", "relative_date", "condition", "top_n", "formula"} :
        \/ k = "categorical" /\ filter_elem.groupfilter # <<>>
        \/ k = "range" /\ filter_elem.range # <<>>
        \/ k = "relative_date" /\ filter_elem.relative_date # <<>>
        \/ k = "condition" /\ filter_elem.condition # <<>>
        \/ k = "top_n" /\ filter_elem.top # <<>>
        \/ k = "formula" /\ filter_elem.calculation # <<>>
                         /\ Truthy(filter_elem.calculation[1].formula)}

\* C27: a filter's kind is determined by which child element it has:
\* group-filter -> categorical, range -> range, relative-date ->
\* relative_date, condition -> condition, top -> top_n, a formula-bearing
\* calculation -> formula.  In particular a filter whose distinguishing child
\* is a condition element is classified as condition, also when that
\* condition contains its own calculation sub-element, and the generated
\* explanation is the one for the assigned kind.
C27_KindByChild ==
    (epc = "parsed" /\ parsed_item.tag = "filter") =>
        /\ \A k \in ChildKinds(element) :
               ChildKinds(element) = {k} => parsed_item.filter.filter_type = k
        /\ ExplainedKind(parsed_item.calculation_explanation)
               = parsed_item.filter.filter_type

(***************************************************************************)
(* Element parser runs: one element is drawn and handed to its parser.     *)
(***************************************************************************)
S_1 == <<"1">>
S_10 == <<"1","0">>
S_quoted_a == <<"'","a","'">>

RangeElems ==
    {<<>>,
     <<[granularity |-> S_1, min |-> S_1, max |-> S_10, step |-> S_1]>>,
     <<[granularity |-> S_1, min |-> S_1, max |-> None, step |-> None]>>,
     <<[granularity |-> S_1, min |-> None, max |-> S_10, step |-> <<>>]>>,
     <<[granularity |-> S_1, min |-> S_1, max |-> S_10, step |-> S_quoted_a]>>,
     <<[granularity |-> None, min |-> S_1, max |-> S_10, step |-> S_1]>>,
     <<[granularity |-> <<>>, min |-> S_1, max |-> S_10, step |-> S_1]>>}

MembersElems == {<<>>, <<<<>>>>, <<<<S_quoted_a>>>>, <<<<S_quoted_a, <<>>, S_10, None>>>>}

ParameterColumns ==
    {[tag |-> "parameter-column", name |-> n, range |-> r, members |-> m] :
        n \in {Attrs.TopN, <<>>, <<"[","]">>}, r \in RangeElems, m \in MembersElems}

\* a generated calculation id, a binned column whose calculation element
\* has no formula, and a nameless column
ColumnElems ==
    {Columns.Sales, Columns.Internal, Columns.ProfitRatio, Columns.TopSales,
     [name |-> K_Calculation \o S_10 \o <<"]">>, calculation |-> Formulas.ProfitRatio],
     [name |-> K_Calculation \o S_1 \o <<"]">>, calculation |-> None],
     [name |-> Attrs.Other, calculation |-> <<>>],
     [name |-> <<>>, calculation |-> None]}

DataSourceColumns ==
    {[tag |-> "datasource", name |-> Names.Orders, columns |-> cols] :
        cols \in {q \in SeqsUpTo(ColumnElems, MaxColumns) :
                     \A i, j \in 1..Len(q) : q[i].name = q[j].name => i = j}}

S_eq == <<"=">>
S_inner == <<"i","n","n","e","r">>

\* the operand expressions of a join clause
OperandElems ==
    {[op |-> <<"[","O","r","d","e","r","s","]",".","[","I","d","]">>],
     [op |-> <<"[","R","e","t","u","r","n","s","]",".","[","I","d","]">>],
     [op |-> None]}

ClauseElems ==
    {<<>>} \cup {<<[op |-> S_eq, children |-> c]>> : c \in SeqsUpTo(OperandElems, MaxOperands)}

JoinRelations ==
    {[tag |-> "relation", join |-> S_inner, clauses |-> cl, relations |-> r] :
        cl \in SeqsUpTo(ClauseElems, MaxClauses),
        r \in {<<>>, <<Names.Orders>>, <<Names.Orders, Names.Returns>>}}

ShelfElems ==
    {[tag |-> "shelf", shelf |-> sh, text |-> t] :
        sh \in {"rows", "cols"},
        t \in {T_Functional, T_Prefixed, <<>>, ShelfTexts.Region, ShelfTexts.Qualified,
               <<"[","S","U","M","(">> \o S_Field \o <<")","]">>,
               <<"[">> \o S_Field \o <<"]">>,
               <<"(">> \o T_Prefixed \o <<" ","/"," ">> \o ShelfTexts.Region \o <<")">>}}

\* type "" is a zone without a type attribute; title and layout-basic are
\* types outside the mapping
ZoneElems ==
    {[tag |-> "zone", name |-> n, type |-> t, floating |-> f] :
        n \in {<<>>, Names.Overview},
        t \in DOMAIN ZONE_TYPES \cup {"", "title", "layout-basic"},
        f \in BOOLEAN}

S_East == <<"'","E","a","s","t","'">>
S_last == <<"l","a","s","t">>
S_days == <<"d","a","y","s">>
S_gt == <<">">>

NoChildren ==
    [tag |-> "filter", context |-> FALSE, groupfilter |-> <<>>, range |-> <<>>,
     relative_date |-> <<>>, condition |-> <<>>, top |-> <<>>, calculation |-> <<>>]

GroupFilters ==
    {[function |-> "member", member |-> S_East, members |-> <<>>, except_null |-> FALSE],
     [function |-> "union", member |-> None, members |-> <<S_East, S_quoted_a>>,
      except_null |-> FALSE],
     [function |-> "except", member |-> None, members |-> <<S_East>>,
      except_null |-> TRUE],
     [function |-> "level-members", member |-> None, members |-> <<>>,
      except_null |-> FALSE]}

FilterRanges ==
    {[min |-> S_1, max |-> S_10], [min |-> S_1, max |-> None],
     [min |-> None, max |-> S_quoted_a], [min |-> None, max |-> None]}

RelativeDates ==
    {[type |-> S_last, period |-> S_days, value |-> S_10],
     [type |-> <<"c","u","r","r","e","n","t">>, period |-> S_days, value |-> None],
     [type |-> <<"n","e","x","t">>, period |-> S_days, value |-> S_quoted_a],
     [type |-> None, period |-> None, value |-> None]}

\* a condition without a calculation, with one that holds the comparison, and
\* with one that holds a formula
Conditions ==
    {[formula |-> Formulas.TopSales, calculation |-> <<>>],
     [formula |-> None, calculation |-> <<>>],
     [formula |-> None,
      calculation |-> <<[formula |-> None, aggregation |-> S_sum,
                         comparison |-> S_gt, value |-> S_10]>>],
     [formula |-> Formulas.TopSales,
      calculation |-> <<[formula |-> Formulas.TopSales, aggregation |-> None,
                         comparison |-> None, value |-> None]>>]}

Tops ==
    {[type |-> None, value |-> S_10, column |-> Attrs.Sales],
     [type |-> <<"b","o","t","t","o","m">>, value |-> S_quoted_a, column |-> None]}

OwnCalculations ==
    {[formula |-> Formulas.ProfitRatio, aggregation |-> None, comparison |-> None,
      value |-> None],
     [formula |-> None, aggregation |-> None, comparison |-> None, value |-> None]}

\* what a filter element may have below it
Children ==
    {<<"groupfilter", <<c>>>> : c \in GroupFilters}
        \cup {<<"range", <<c>>>> : c \in FilterRanges}
        \cup {<<"relative_date", <<c>>>> : c \in RelativeDates}
        \cup {<<"condition", <<c>>>> : c \in Conditions}
        \cup {<<"top", <<c>>>> : c \in Tops}
        \cup {<<"calculation", <<c>>>> : c \in OwnCalculations}
        \cup {<<"context", TRUE>>}

With(elem, child) == [elem EXCEPT ![child[1]] = child[2]]

FilterElems == {With(With(NoChildren, a), b) : a, b \in Children}

ElementInputs ==
    ParameterColumns \cup DataSourceColumns \cup JoinRelations \cup ShelfElems
        \cup ZoneElems \cup FilterElems

ElementInit ==
    /\ element \in ElementInputs
    /\ parsed_item = NoElement
    /\ epc = "input"
    /\ OthersIdle("element")

ElementNext ==
    \/ ParseParameter
    \/ ParseColumns
    \/ ParseJoin
    \/ ParseShelf
    \/ ParseZone
    \/ ParseFilter

SpecElement == ElementInit /\ [][ElementNext]_vars

(***************************************************************************)
(* Remote client (src/extractors/metadata_api.py): authenticate and        *)
(* _graphql_query of TableauMetadataAPIClient.  A call is one step; the    *)
(* responses of the server are its inputs.  Every request the session      *)
(* posts is recorded with the response it got.                             *)
(***************************************************************************)
T_first == <<"t","1">>
T_second == <<"t","2">>

\* a posted request and its response: token is the token a sign-in response
\* carries, auth the X-Tableau-Auth header of a GraphQL request
Exchange(kind, auth, status, token, payload) ==
    [kind |-> kind, auth |-> auth, status |-> status, token |-> token,
     payload |-> payload]

\* responses to the sign-in request: accepted with a token, accepted with a
\* body that lacks the credentials, refused
SignInResponses ==
    {[status |-> 200, token |-> t, payload |-> "credentials"] :
        t \in {T_first, T_second}}
    \cup {[status |-> 200, token |-> None, payload |-> "malformed"],
          [status |-> 401, token |-> None, payload |-> "error"]}

\* responses to a GraphQL request
GraphqlResponses ==
    {[status |-> 200, payload |-> "data"],
     [status |-> 200, payload |-> "errors"],
     [status |-> 200, payload |-> "data and errors"],
     [status |-> 200, payload |-> "empty"],
     [status |-> 500, payload |-> "error"]}

\* the client was created with a token pair, with a user name and password,
\* or with neither
HasCredentials(creds) == creds \in {"token", "password"}

\* how authenticate ends for a response
SignInResult(response) ==
    IF response.status # 200 THEN "Exception"
    ELSE IF response.payload = "malformed" THEN "KeyError"
    ELSE "True"

\* how _graphql_query ends for a response to its request
QueryResult(response) ==
    IF response.status # 200 THEN "Exception"
    ELSE IF response.payload \in {"errors", "data and errors"} THEN "Exception"
    ELSE IF response.payload = "data" THEN "data" ELSE "{}"

\* a _graphql_query that signs in on every call
SignsInAlways(token) == token = token

\* if not self.auth_token
NeedsSignIn(token) == ~Truthy(token)

ClientInit ==
    /\ credentials \in {"token", "password", "none"}
    /\ auth_token = None
    /\ exchanges = <<>>
    /\ last_call = "none"
    /\ call_result = "none"
    /\ OthersIdle("client")

\* the sign-in of authenticate(): the token held afterwards, the exchange
\* made, and how it ended
SignIn(response) ==
    [auth_token |-> IF SignInResult(response) = "True" THEN response.token
                    ELSE auth_token,
     exchange |-> Exchange("signin", None, response.status, response.token,
                           response.payload),
     result |-> SignInResult(response)]

\* client.authenticate()
Authenticate ==
    /\ Len(exchanges) < MaxRequests
    /\ last_call' = "authenticate"
    /\ IF ~HasCredentials(credentials)
       THEN /\ call_result' = "ValueError"
            /\ UNCHANGED <<auth_token, exchanges>>
       ELSE \E response \in SignInResponses :
                /\ auth_token' = SignIn(response).auth_token
                /\ exchanges' = Append(exchanges, SignIn(response).exchange)
                /\ call_result' = SignIn(response).result
    /\ UNCHANGED credentials
    /\ Others("client")

\* the request of _graphql_query with the token held, and its outcome
PostQuery(token, sent) ==
    \E response \in GraphqlResponses :
        /\ auth_token' = token
        /\ exchanges' = Append(sent, Exchange("graphql", token, response.status,
                                              None, response.payload))
        /\ call_result' = QueryResult(response)

\* client._graphql_query(query, variables)
GraphqlQuery ==
    /\ Len(exchanges) < MaxRequests
    /\ last_call' = "_graphql_query"
    /\ IF NeedsSignIn(auth_token)
       THEN IF ~HasCredentials(credentials)
            THEN /\ call_result' = "ValueError"
                 /\ UNCHANGED <<auth_token, exchanges>>
            ELSE \E response \in SignInResponses :
                    IF SignIn(response).result # "True"
                    THEN /\ call_result' = SignIn(response).result
                         /\ exchanges' = Append(exchanges, SignIn(response).exchange)
                         /\ UNCHANGED auth_token
                    ELSE PostQuery(SignIn(response).auth_token,
                                   Append(exchanges, SignIn(response).exchange))
       ELSE PostQuery(auth_token, exchanges)
    /\ UNCHANGED credentials
    /\ Others("client")

ClientNext == Authenticate \/ GraphqlQuery

SpecClient == ClientInit /\ [][ClientNext]_vars

\* the sign-ins accepted before the k-th exchange
AcceptedBefore(log, k) ==
    {j \in 1..(k - 1) : log[j].kind = "signin" /\ SignInResult(log[j]) = "True"}

\* the exchanges a step added
NewExchanges == SubSeq(exchanges', Len(exchanges) + 1, Len(exchanges'))

QueryStep == last_call' = "_graphql_query" /\ clientVars' # clientVars

Raised(result) == result \in {"ValueError", "KeyError", "Exception"}

\* C30: in every run of the remote client, each GraphQL request is sent only
\* after a sign-in has succeeded and carries the token obtained from it (the
\* latest one); _graphql_query authenticates first when no token is held and
\* reuses the held token otherwise, without a second sign-in; when the sign-in
\* fails (non-200 response or missing credentials) the error propagates and
\* no GraphQL request is sent; a non-200 GraphQL response or an 'errors'
\* payload raises and returns no data.
C30_QueryAfterSignIn ==
    /\ [](\A k \in 1..Len(exchanges) :
             exchanges[k].kind = "graphql" =>
                 /\ AcceptedBefore(exchanges, k) # {}
                 /\ exchanges[k].auth
                      = exchanges[Max(AcceptedBefore(exchanges, k))].token)
    /\ [][QueryStep =>
            /\ Truthy(auth_token) =>
                   /\ Len(NewExchanges) = 1
                   /\ NewExchanges[1].kind = "graphql"
                   /\ NewExchanges[1].auth = auth_token
            /\ ~Truthy(auth_token) =>
                   IF ~HasCredentials(credentials)
                   THEN NewExchanges = <<>> /\ call_result' = "ValueError"
                   ELSE /\ NewExchanges # <<>>
                        /\ NewExchanges[1].kind = "signin"
                        /\ SignInResult(NewExchanges[1]) # "True" =>
                               /\ Len(NewExchanges) = 1
                               /\ Raised(call_result')
                        /\ SignInResult(NewExchanges[1]) = "True" =>
                               /\ Len(NewExchanges) = 2
                               /\ NewExchanges[2].kind = "graphql"
            /\ (NewExchanges # <<>> /\ Last(exchanges').kind = "graphql"
                  /\ (Last(exchanges').status # 200
                      \/ Last(exchanges').payload \in {"errors", "data and errors"}))
                   => call_result' = "Exception"]_vars

\* a query signed in by itself, a later query reused the token, and the last
\* one was answered with errors
C30_Witness ==
    /\ Len(exchanges) = 3
    /\ exchanges[1].kind = "signin"
    /\ exchanges[2].kind = "graphql"
    /\ exchanges[3].kind = "graphql"
    /\ exchanges[3].auth = exchanges[1].token
    /\ exchanges[3].payload = "errors"
    /\ last_call = "_graphql_query"
    /\ call_result = "Exception"

====
